---- MODULE Spec2Model ----
(***************************************************************************)
(* Model of the report edit pipeline of crystal-copilot:                   *)
(*   backend/core/edit_service.py   ReportEditService (apply_edit, the     *)
(*                                  eight edit handlers, the edit history, *)
(*                                  create_edit_preview)                   *)
(*   backend/core/report_parser.py  the shape of an uploaded document      *)
(*   backend/core/qa_service.py     the report cache                       *)
(*   backend/main.py                the apply-edit request handler         *)
(*                                                                         *)
(* Python values are modelled as follows.  A dict with a fixed set of keys *)
(* is a record; a dict with a varying set of keys (field_lineage, a        *)
(* formatting map) is a function whose DOMAIN is the set of keys; a list   *)
(* is a sequence.  An optional boolean key 'hidden' is one of the strings  *)
(* "absent", "False", "True".  An optional 'formatting' key is the pair    *)
(* has_formatting / formatting.  None is the string None.                  *)
(***************************************************************************)
EXTENDS Integers, Sequences, FiniteSets, TLC

VARIABLES report_cache, edit_history, snapshots, report_id, edit_command,
          original_metadata, modified_metadata, preview, error,
          client, command, response, fallback_result, requests

vars == <<report_cache, edit_history, snapshots, report_id, edit_command,
          original_metadata, modified_metadata, preview, error,
          client, command, response, fallback_result, requests>>

\* the variables of the command parser
parser_vars == <<client, command, response, fallback_result>>

(***************************************************************************)
(* Bounds and input sets                                                   *)
(***************************************************************************)
MaxEdits == 2

ReportIds == {"r1"}

None == "<None>"

SectionNames == {"Header", "Details"}

ObjectNames == {"Total", "Title"}

NewNames == {"Total", "Sum", "Label"}

NewTexts == {"Report"}

\* the targets of the move_field, change_text and format_field commands
MoveTargets == {"Total"}

TextTargets == {"Title"}

FormatTargets == {"Total"}

EmptyMap == [k \in {} |-> ""]

Bold == [k \in {"bold"} |-> "True"]

NotBold == [k \in {"bold"} |-> "False"]

Italic == [k \in {"italic"} |-> "True"]

FontSize == [k \in {"font_size"} |-> "18px"]

FormatParameters == {Bold, NotBold, Italic}

(***************************************************************************)
(* Python helpers                                                          *)
(***************************************************************************)
\* dict.get('hidden', False) used as a condition
Truthy(hidden) == hidden = "True"

\* dict.update(other)
DictUpdate(d, other) ==
    [k \in (DOMAIN d) \cup (DOMAIN other) |->
        IF k \in DOMAIN other THEN other[k] ELSE d[k]]

\* the concatenation of a list of lists
RECURSIVE Concat(_)
Concat(seqs) ==
    IF seqs = <<>> THEN <<>> ELSE Head(seqs) \o Concat(Tail(seqs))

\* index of the first element of seq whose name is n, 0 when there is none
FirstNamed(seq, n) ==
    IF \E i \in 1..Len(seq) : seq[i].name = n
    THEN CHOOSE i \in 1..Len(seq) :
            /\ seq[i].name = n
            /\ \A j \in 1..(i - 1) : seq[j].name # n
    ELSE 0

\* list.pop(i)
Pop(seq, i) == SubSeq(seq, 1, i - 1) \o SubSeq(seq, i + 1, Len(seq))

(***************************************************************************)
(* Documents as ReportParser._normalize_xml_to_json and the mock report of *)
(* main.py build them                                                      *)
(***************************************************************************)
\* A report file: its sections, each a name and a list of <<kind, name>>
\* objects, and the names of its formulas.
BasicFile ==
    [sections |-> << [name |-> "Header",  objects |-> << <<"TextObject", "Title">> >>],
                     [name |-> "Details", objects |-> << <<"FieldObject", "Total">> >>] >>,
     formulas |-> {}]

SameNameFile ==
    [sections |-> << [name |-> "Header",  objects |-> << <<"FieldObject", "Total">>,
                                                        <<"TextObject", "Total">> >>],
                     [name |-> "Details", objects |-> << <<"FieldObject", "Title">> >>] >>,
     formulas |-> {}]

SameSectionNameFile ==
    [sections |-> << [name |-> "Details", objects |-> << <<"FieldObject", "Total">> >>],
                     [name |-> "Details", objects |-> << <<"FieldObject", "Total">>,
                                                        <<"TextObject", "Title">> >>] >>,
     formulas |-> {}]

PictureFile ==
    [sections |-> << [name |-> "Header",  objects |-> << <<"FieldObject", "Total">>,
                                                        <<"PictureObject", "Total">> >>],
                     [name |-> "Details", objects |-> << <<"TextObject", "Title">>,
                                                        <<"TextObject", "Total">> >>] >>,
     formulas |-> {}]

FormulaFile ==
    [sections |-> << [name |-> "Header",  objects |-> << <<"TextObject", "Title">> >>],
                     [name |-> "Details", objects |-> << <<"FieldObject", "Total">>,
                                                        <<"FieldObject", "Title">> >>] >>,
     formulas |-> {"Sum"}]

ReportFiles == {BasicFile, SameNameFile, SameSectionNameFile, PictureFile, FormulaFile}

MockFiles == {BasicFile}

FieldObject(name, style) ==
    [name |-> name,
     hidden |-> IF style = "mock" THEN "False" ELSE "absent",
     has_formatting |-> style = "mock",
     formatting |-> IF style = "mock" THEN FontSize ELSE EmptyMap]

TextObject(name, style) ==
    [name |-> name,
     text |-> name,
     hidden |-> IF style = "mock" THEN "False" ELSE "absent",
     has_formatting |-> style = "mock",
     formatting |-> IF style = "mock" THEN FontSize ELSE EmptyMap]

PictureObject(name, style) ==
    [name |-> name,
     hidden |-> IF style = "mock" THEN "False" ELSE "absent"]

RECURSIVE ObjectsOfKind(_, _, _)
ObjectsOfKind(objects, kind, style) ==
    IF objects = <<>> THEN <<>>
    ELSE LET o == Head(objects)
             rest == ObjectsOfKind(Tail(objects), kind, style)
         IN IF o[1] # kind THEN rest
            ELSE IF kind = "FieldObject" THEN <<FieldObject(o[2], style)>> \o rest
            ELSE IF kind = "TextObject" THEN <<TextObject(o[2], style)>> \o rest
            ELSE <<PictureObject(o[2], style)>> \o rest

SectionData(section, style) ==
    [name |-> section.name,
     hidden |-> IF style = "mock" THEN "False" ELSE "absent",
     text_objects |-> ObjectsOfKind(section.objects, "TextObject", style),
     field_objects |-> ObjectsOfKind(section.objects, "FieldObject", style),
     picture_objects |-> ObjectsOfKind(section.objects, "PictureObject", style)]

\* field_lineage[obj_name] = {...} for every FieldObject in document order,
\* a later object of the same name overwriting the entry, then one entry
\* per formula.  The mock report carries no field_lineage.
FieldLineageOf(file) ==
    LET secs == file.sections
        fieldNames == UNION { { secs[i].objects[j][2] :
                                  j \in { k \in DOMAIN secs[i].objects :
                                            secs[i].objects[k][1] = "FieldObject" } } :
                              i \in DOMAIN secs }
        lastSection(n) ==
            LET idx == { i \in DOMAIN secs :
                           \E j \in DOMAIN secs[i].objects :
                              secs[i].objects[j] = <<"FieldObject", n>> }
                last == CHOOSE i \in idx : \A k \in idx : k <= i
            IN secs[last].name
    IN [n \in fieldNames \cup file.formulas |->
          IF n \in file.formulas
          THEN [source |-> "Formula", section |-> "Formula Definition", hidden |-> "absent"]
          ELSE [source |-> n, section |-> lastSection(n), hidden |-> "absent"]]

_normalize_xml_to_json(file, style) ==
    [sections |-> [i \in DOMAIN file.sections |-> SectionData(file.sections[i], style)],
     field_lineage |-> IF style = "mock" THEN EmptyMap ELSE FieldLineageOf(file)]

\* the mock report of main.mock_report_demo: every object and section carries
\* hidden = False and a formatting map, and there is no field_lineage
mock_metadata(file) == _normalize_xml_to_json(file, "mock")

Uploads == { _normalize_xml_to_json(f, "parsed") : f \in ReportFiles }
           \cup { mock_metadata(f) : f \in MockFiles }

(***************************************************************************)
(* EditCommand                                                             *)
(***************************************************************************)
EditCommand(edit_type, target, new_value, target_section, parameters) ==
    [edit_type |-> edit_type, target |-> target, new_value |-> new_value,
     target_section |-> target_section, parameters |-> parameters]

NoCommand == EditCommand("", "", None, None, EmptyMap)

(***************************************************************************)
(* The edit handlers.  Each works on the working copy made by apply_edit   *)
(* and returns [metadata, error]: the working copy as the handler leaves   *)
(* it, and the message of the ValueError it raised ("" when it returned).  *)
(***************************************************************************)
Returned(metadata) == [metadata |-> metadata, error |-> ""]

Raised(metadata, message) == [metadata |-> metadata, error |-> message]

\* the objects of a list named target get new_value as their name
RenameObjects(objects, target, new_value) ==
    [i \in DOMAIN objects |->
        IF objects[i].name = target
        THEN [objects[i] EXCEPT !.name = new_value]
        ELSE objects[i]]

\* rename_field with the lineage entry copied to the new key, the old key kept
rename_field_keeps_key(metadata, cmd) ==
    LET field_lineage == metadata.field_lineage
        lineage ==
            IF cmd.target \in DOMAIN field_lineage
            THEN [k \in (DOMAIN field_lineage) \cup {cmd.new_value} |->
                    IF k = cmd.new_value THEN field_lineage[cmd.target]
                    ELSE field_lineage[k]]
            ELSE field_lineage
        sections ==
            [i \in DOMAIN metadata.sections |->
                [metadata.sections[i] EXCEPT
                    !.field_objects = RenameObjects(@, cmd.target, cmd.new_value),
                    !.text_objects = RenameObjects(@, cmd.target, cmd.new_value)]]
    IN Returned([metadata EXCEPT !.field_lineage = lineage, !.sections = sections])

rename_field(metadata, cmd) ==
    LET field_lineage == metadata.field_lineage
        lineage ==
            IF cmd.target \in DOMAIN field_lineage
            THEN [k \in ((DOMAIN field_lineage) \ {cmd.target}) \cup {cmd.new_value} |->
                    IF k = cmd.new_value THEN field_lineage[cmd.target]
                    ELSE field_lineage[k]]
            ELSE field_lineage
        sections ==
            [i \in DOMAIN metadata.sections |->
                [metadata.sections[i] EXCEPT
                    !.field_objects = RenameObjects(@, cmd.target, cmd.new_value),
                    !.text_objects = RenameObjects(@, cmd.target, cmd.new_value)]]
    IN Returned([metadata EXCEPT !.field_lineage = lineage, !.sections = sections])

\* the field objects of a list named target get the hidden value
SetHidden(objects, target, hidden) ==
    [i \in DOMAIN objects |->
        IF objects[i].name = target
        THEN [objects[i] EXCEPT !.hidden = hidden]
        ELSE objects[i]]

\* hide_field that sets the flag of the lineage entry only
hide_field_lineage_only(metadata, cmd) ==
    LET field_lineage == metadata.field_lineage
        lineage ==
            IF cmd.target \in DOMAIN field_lineage
            THEN [field_lineage EXCEPT ![cmd.target].hidden = "True"]
            ELSE field_lineage
    IN Returned([metadata EXCEPT !.field_lineage = lineage])

\* hide_field that flips the flag of a field object instead of setting it
hide_field_toggles(metadata, cmd) ==
    LET field_lineage == metadata.field_lineage
        lineage ==
            IF cmd.target \in DOMAIN field_lineage
            THEN [field_lineage EXCEPT ![cmd.target].hidden = "True"]
            ELSE field_lineage
        toggle(objects) ==
            [i \in DOMAIN objects |->
                IF objects[i].name = cmd.target
                THEN [objects[i] EXCEPT
                        !.hidden = IF Truthy(@) THEN "False" ELSE "True"]
                ELSE objects[i]]
        sections ==
            [i \in DOMAIN metadata.sections |->
                [metadata.sections[i] EXCEPT !.field_objects = toggle(@)]]
    IN Returned([metadata EXCEPT !.field_lineage = lineage, !.sections = sections])

hide_field(metadata, cmd) ==
    LET field_lineage == metadata.field_lineage
        lineage ==
            IF cmd.target \in DOMAIN field_lineage
            THEN [field_lineage EXCEPT ![cmd.target].hidden = "True"]
            ELSE field_lineage
        sections ==
            [i \in DOMAIN metadata.sections |->
                [metadata.sections[i] EXCEPT
                    !.field_objects = SetHidden(@, cmd.target, "True")]]
    IN Returned([metadata EXCEPT !.field_lineage = lineage, !.sections = sections])

\* show_field that clears the flag of the lineage entry only
show_field_lineage_only(metadata, cmd) ==
    LET field_lineage == metadata.field_lineage
        lineage ==
            IF cmd.target \in DOMAIN field_lineage
            THEN [field_lineage EXCEPT ![cmd.target].hidden = "absent"]
            ELSE field_lineage
    IN Returned([metadata EXCEPT !.field_lineage = lineage])

show_field(metadata, cmd) ==
    LET field_lineage == metadata.field_lineage
        lineage ==
            IF cmd.target \in DOMAIN field_lineage
            THEN [field_lineage EXCEPT ![cmd.target].hidden = "absent"]
            ELSE field_lineage
        sections ==
            [i \in DOMAIN metadata.sections |->
                [metadata.sections[i] EXCEPT
                    !.field_objects = SetHidden(@, cmd.target, "absent")]]
    IN Returned([metadata EXCEPT !.field_lineage = lineage, !.sections = sections])

\* index of the first section that holds a field object named target, 0 if none
FirstSectionWithField(sections, target) ==
    IF \E i \in DOMAIN sections : FirstNamed(sections[i].field_objects, target) # 0
    THEN CHOOSE i \in DOMAIN sections :
            /\ FirstNamed(sections[i].field_objects, target) # 0
            /\ \A j \in 1..(i - 1) : FirstNamed(sections[j].field_objects, target) = 0
    ELSE 0

\* MoveToSection that puts the field at the head of the target section
MoveToSection_prepends(metadata, cmd) ==
    LET sections == metadata.sections
        src == FirstSectionWithField(sections, cmd.target)
    IN IF src = 0
       THEN Raised(metadata, "Field not found")
       ELSE
         LET at == FirstNamed(sections[src].field_objects, cmd.target)
             field_to_move == sections[src].field_objects[at]
             removed == [sections EXCEPT ![src].field_objects = Pop(@, at)]
             dst == FirstNamed(removed, cmd.target_section)
         IN IF dst = 0
            THEN Raised([metadata EXCEPT !.sections = removed], "Target section not found")
            ELSE Returned([metadata EXCEPT
                             !.sections = [removed EXCEPT ![dst].field_objects =
                                              <<field_to_move>> \o @]])

\* MoveToSection without the else of the loop over the sections: the field
\* is dropped when no section is named target_section
MoveToSection_drops_field(metadata, cmd) ==
    LET sections == metadata.sections
        src == FirstSectionWithField(sections, cmd.target)
    IN IF src = 0
       THEN Raised(metadata, "Field not found")
       ELSE
         LET at == FirstNamed(sections[src].field_objects, cmd.target)
             field_to_move == sections[src].field_objects[at]
             removed == [sections EXCEPT ![src].field_objects = Pop(@, at)]
             dst == FirstNamed(removed, cmd.target_section)
             appended == IF dst = 0 THEN removed
                         ELSE [removed EXCEPT ![dst].field_objects =
                                  Append(@, field_to_move)]
             field_lineage == metadata.field_lineage
             lineage ==
                 IF cmd.target \in DOMAIN field_lineage
                 THEN [field_lineage EXCEPT
                          ![cmd.target].section = cmd.target_section]
                 ELSE field_lineage
         IN Returned([metadata EXCEPT !.sections = appended,
                                      !.field_lineage = lineage])

\* move_field once target_section is known to be given: find and remove the
\* field, append it to the target section, update the lineage
MoveToSection(metadata, cmd) ==
    LET sections == metadata.sections
        src == FirstSectionWithField(sections, cmd.target)
    IN IF src = 0
       THEN Raised(metadata, "Field not found")
       ELSE
         LET at == FirstNamed(sections[src].field_objects, cmd.target)
             field_to_move == sections[src].field_objects[at]
             removed == [sections EXCEPT ![src].field_objects = Pop(@, at)]
             popped == [metadata EXCEPT !.sections = removed]
             dst == FirstNamed(removed, cmd.target_section)
         IN IF dst = 0
            THEN Raised(popped, "Target section not found")
            ELSE
              LET appended ==
                      [removed EXCEPT ![dst].field_objects = Append(@, field_to_move)]
                  field_lineage == metadata.field_lineage
                  lineage ==
                      IF cmd.target \in DOMAIN field_lineage
                      THEN [field_lineage EXCEPT
                               ![cmd.target].section = cmd.target_section]
                      ELSE field_lineage
              IN Returned([metadata EXCEPT !.sections = appended,
                                           !.field_lineage = lineage])

\* move_field that looks for the field before it checks target_section
move_field_finds_first(metadata, cmd) ==
    IF FirstSectionWithField(metadata.sections, cmd.target) = 0
    THEN Raised(metadata, "Field not found")
    ELSE IF cmd.target_section \in {None, ""}
    THEN Raised(metadata, "Target section required for move operation")
    ELSE MoveToSection(metadata, cmd)

move_field(metadata, cmd) ==
    IF cmd.target_section \in {None, ""}
    THEN Raised(metadata, "Target section required for move operation")
    ELSE MoveToSection(metadata, cmd)

\* the first text object of every section named target gets the text
change_text(metadata, cmd) ==
    LET sections ==
            [i \in DOMAIN metadata.sections |->
                LET at == FirstNamed(metadata.sections[i].text_objects, cmd.target)
                IN IF at = 0 THEN metadata.sections[i]
                   ELSE [metadata.sections[i] EXCEPT
                            !.text_objects[at].text = cmd.new_value]]
    IN Returned([metadata EXCEPT !.sections = sections])

\* hide_section that hides every section named target
hide_section_every(metadata, cmd) ==
    Returned([metadata EXCEPT !.sections =
                [i \in DOMAIN @ |-> IF @[i].name = cmd.target
                                    THEN [@[i] EXCEPT !.hidden = "True"]
                                    ELSE @[i]]])

hide_section(metadata, cmd) ==
    LET at == FirstNamed(metadata.sections, cmd.target)
    IN Returned(IF at = 0 THEN metadata
                ELSE [metadata EXCEPT !.sections[at].hidden = "True"])

show_section(metadata, cmd) ==
    LET at == FirstNamed(metadata.sections, cmd.target)
    IN Returned(IF at = 0 THEN metadata
                ELSE [metadata EXCEPT !.sections[at].hidden = "absent"])

\* MergeFormatting that replaces the map by the parameters
MergeFormatting_replaces(obj, parameters) ==
    [obj EXCEPT !.has_formatting = TRUE,
                !.formatting = parameters]

\* obj['formatting'].update(parameters or {}), creating the map when missing
MergeFormatting(obj, parameters) ==
    [obj EXCEPT !.has_formatting = TRUE,
                !.formatting = DictUpdate(@, parameters)]

\* the first object of a list named target gets the parameters merged in
FormatFirst(objects, target, parameters) ==
    LET at == FirstNamed(objects, target)
    IN IF at = 0 THEN objects
       ELSE [objects EXCEPT ![at] = MergeFormatting(@, parameters)]

format_field(metadata, cmd) ==
    LET sections ==
            [i \in DOMAIN metadata.sections |->
                [metadata.sections[i] EXCEPT
                    !.field_objects = FormatFirst(@, cmd.target, cmd.parameters),
                    !.text_objects = FormatFirst(@, cmd.target, cmd.parameters)]]
    IN Returned([metadata EXCEPT !.sections = sections])

(***************************************************************************)
(* ReportEditService.apply_edit                                            *)
(***************************************************************************)
NoDoc == [none |-> TRUE]

\* modified_metadata = metadata: the working copy is the caller's document
DeepCopy_shares(metadata) == [metadata |-> metadata, shared |-> TRUE]

\* json.loads(json.dumps(metadata)): a document equal to metadata that
\* shares no object with it (shared = FALSE).  Documents hold only string
\* keys, strings, booleans, lists and dicts, which the round trip keeps.
DeepCopy(metadata) == [metadata |-> metadata, shared |-> FALSE]

Dispatch(working, cmd) ==
    CASE cmd.edit_type = "rename_field" -> rename_field(working, cmd)
      [] cmd.edit_type = "hide_field" -> hide_field(working, cmd)
      [] cmd.edit_type = "show_field" -> show_field(working, cmd)
      [] cmd.edit_type = "move_field" -> move_field(working, cmd)
      [] cmd.edit_type = "change_text" -> change_text(working, cmd)
      [] cmd.edit_type = "hide_section" -> hide_section(working, cmd)
      [] cmd.edit_type = "show_section" -> show_section(working, cmd)
      [] cmd.edit_type = "format_field" -> format_field(working, cmd)
      [] OTHER -> Raised(working, "Unsupported edit type")

\* apply_edit that appends the command before it dispatches
apply_edit_appends_first(id, cmd, metadata, history) ==
    LET copy == DeepCopy(metadata)
        r == Dispatch(copy.metadata, cmd)
        ok == r.error = ""
    IN [modified_metadata |-> IF ok THEN r.metadata ELSE NoDoc,
        error |-> IF ok THEN "" ELSE "Failed to apply edit: " \o r.error,
        edit_history |-> Append(history, cmd),
        metadata |-> IF copy.shared THEN r.metadata ELSE metadata]

\* apply_edit that does not append a command equal to the last one
apply_edit_dedups(id, cmd, metadata, history) ==
    LET copy == DeepCopy(metadata)
        r == Dispatch(copy.metadata, cmd)
        ok == r.error = ""
        repeated == history # <<>> /\ history[Len(history)] = cmd
    IN [modified_metadata |-> IF ok THEN r.metadata ELSE NoDoc,
        error |-> IF ok THEN "" ELSE "Failed to apply edit: " \o r.error,
        edit_history |-> IF ok /\ ~repeated THEN Append(history, cmd) ELSE history,
        metadata |-> IF copy.shared THEN r.metadata ELSE metadata]

\* apply_edit that records a command only when it changed the document
apply_edit_skips_no_ops(id, cmd, metadata, history) ==
    LET copy == DeepCopy(metadata)
        r == Dispatch(copy.metadata, cmd)
        ok == r.error = ""
    IN [modified_metadata |-> IF ok THEN r.metadata ELSE NoDoc,
        error |-> IF ok THEN "" ELSE "Failed to apply edit: " \o r.error,
        edit_history |-> IF ok /\ r.metadata # metadata
                         THEN Append(history, cmd) ELSE history,
        metadata |-> IF copy.shared THEN r.metadata ELSE metadata]

\* The outcome of one call: the document returned (NoDoc when the call
\* raised), the message of the ValueError raised ("" when it returned), the
\* edit history of the report after the call, and metadata, the caller's
\* document as it is after the call.
apply_edit(id, cmd, metadata, history) ==
    LET copy == DeepCopy(metadata)
        r == Dispatch(copy.metadata, cmd)
        ok == r.error = ""
    IN [modified_metadata |-> IF ok THEN r.metadata ELSE NoDoc,
        error |-> IF ok THEN "" ELSE "Failed to apply edit: " \o r.error,
        edit_history |-> IF ok THEN Append(history, cmd) ELSE history,
        metadata |-> IF copy.shared THEN r.metadata ELSE metadata]

\* ReportEditService.get_edit_history: one dict per command, in history order
get_edit_history(id) ==
    [i \in DOMAIN edit_history[id] |->
        [edit_type |-> edit_history[id][i].edit_type,
         target |-> edit_history[id][i].target,
         new_value |-> edit_history[id][i].new_value,
         target_section |-> edit_history[id][i].target_section,
         parameters |-> edit_history[id][i].parameters]]

(***************************************************************************)
(* ReportEditService.create_edit_preview                                   *)
(***************************************************************************)
\* The order in which the names of a set are visited.  Python leaves the
\* iteration order of a set of strings open; the changes of one category are
\* listed here in this order and no property below depends on it.
NameOrder == <<"Total", "Title", "Sum", "Label">>

InOrder(names) == SelectSeq(NameOrder, LAMBDA n : n \in names)

\* sections.index(section)
IndexOf(sections, section) ==
    CHOOSE i \in DOMAIN sections :
        /\ sections[i] = section
        /\ \A j \in 1..(i - 1) : sections[j] # section

\* the entries get_all_objects_from_sections writes for one section, in the
\* order it writes them: the field objects, then the text objects
SectionEntries(sections, i) ==
    LET section == sections[i]
        entry(obj, type) ==
            [name |-> obj.name, type |-> type, section |-> section.name,
             data |-> obj, section_index |-> IndexOf(sections, section)]
    IN [j \in DOMAIN section.field_objects |-> entry(section.field_objects[j], "field")]
       \o [j \in DOMAIN section.text_objects |-> entry(section.text_objects[j], "text")]

\* objects[obj_name] = {...}: the last entry written for a name stays
get_all_objects_from_sections(metadata) ==
    LET sections == metadata.sections
        entries == Concat([i \in DOMAIN sections |-> SectionEntries(sections, i)])
        names == { entries[i].name : i \in DOMAIN entries } \ {""}
        last(n) == CHOOSE i \in DOMAIN entries :
                      /\ entries[i].name = n
                      /\ \A j \in DOMAIN entries : entries[j].name = n => j <= i
    IN [n \in names |->
          [type |-> entries[last(n)].type, section |-> entries[last(n)].section,
           data |-> entries[last(n)].data,
           section_index |-> entries[last(n)].section_index]]

\* the single element of a one-element set: list(s)[0]
TheOne(s) == CHOOSE e \in s : TRUE

\* RenameChanges that infers a rename for field objects only
RenameChanges_fields_only(original_objects, modified_objects) ==
    LET removed_names == (DOMAIN original_objects) \ (DOMAIN modified_objects)
        added_names == (DOMAIN modified_objects) \ (DOMAIN original_objects)
    IN IF Cardinality(removed_names) = 1 /\ Cardinality(added_names) = 1
       THEN LET old_name == TheOne(removed_names)
                new_name == TheOne(added_names)
                old_obj == original_objects[old_name]
                new_obj == modified_objects[new_name]
            IN IF /\ old_obj.section = new_obj.section
                  /\ old_obj.type = "field" /\ new_obj.type = "field"
               THEN << [type |-> "rename", old_value |-> old_name,
                        new_value |-> new_name, section |-> old_obj.section] >>
               ELSE <<>>
       ELSE <<>>

\* RenameChanges that takes the first removed and the first added name when
\* there are several
RenameChanges_first_of_many(original_objects, modified_objects) ==
    LET removed_names == (DOMAIN original_objects) \ (DOMAIN modified_objects)
        added_names == (DOMAIN modified_objects) \ (DOMAIN original_objects)
    IN IF Cardinality(removed_names) >= 1 /\ Cardinality(added_names) >= 1
       THEN LET old_name == Head(InOrder(removed_names))
                new_name == Head(InOrder(added_names))
                old_obj == original_objects[old_name]
                new_obj == modified_objects[new_name]
            IN IF old_obj.section = new_obj.section /\ old_obj.type = new_obj.type
               THEN << [type |-> "rename", old_value |-> old_name,
                        new_value |-> new_name, section |-> old_obj.section] >>
               ELSE <<>>
       ELSE <<>>

\* "rename" from the section objects
RenameChanges(original_objects, modified_objects) ==
    LET removed_names == (DOMAIN original_objects) \ (DOMAIN modified_objects)
        added_names == (DOMAIN modified_objects) \ (DOMAIN original_objects)
    IN IF Cardinality(removed_names) = 1 /\ Cardinality(added_names) = 1
       THEN LET old_name == TheOne(removed_names)
                new_name == TheOne(added_names)
                old_obj == original_objects[old_name]
                new_obj == modified_objects[new_name]
            IN IF old_obj.section = new_obj.section /\ old_obj.type = new_obj.type
               THEN << [type |-> "rename", old_value |-> old_name,
                        new_value |-> new_name, section |-> old_obj.section] >>
               ELSE <<>>
       ELSE <<>>

\* VisibilityChange reading a missing 'hidden' of the modified object as True
VisibilityChange_default_true(obj_name, original_obj, modified_obj) ==
    LET original_hidden == Truthy(original_obj.data.hidden)
        modified_hidden == modified_obj.data.hidden \in {"True", "absent"}
    IN IF ~original_hidden /\ modified_hidden
       THEN << [type |-> "hide", target |-> obj_name, section |-> original_obj.section] >>
       ELSE IF original_hidden /\ ~modified_hidden
       THEN << [type |-> "show", target |-> obj_name, section |-> original_obj.section] >>
       ELSE <<>>

\* "hide" / "show" of the objects present in both documents
VisibilityChange(obj_name, original_obj, modified_obj) ==
    LET original_hidden == Truthy(original_obj.data.hidden)
        modified_hidden == Truthy(modified_obj.data.hidden)
    IN IF ~original_hidden /\ modified_hidden
       THEN << [type |-> "hide", target |-> obj_name, section |-> original_obj.section] >>
       ELSE IF original_hidden /\ ~modified_hidden
       THEN << [type |-> "show", target |-> obj_name, section |-> original_obj.section] >>
       ELSE <<>>

MoveChange(obj_name, original_obj, modified_obj) ==
    IF original_obj.section # modified_obj.section
    THEN << [type |-> "move", target |-> obj_name,
             old_section |-> original_obj.section,
             new_section |-> modified_obj.section] >>
    ELSE <<>>

TextChange(obj_name, original_obj, modified_obj) ==
    IF original_obj.type = "text" /\ modified_obj.type = "text"
    THEN IF original_obj.data.text # modified_obj.data.text
         THEN << [type |-> "text_change", target |-> obj_name,
                  old_value |-> original_obj.data.text,
                  new_value |-> modified_obj.data.text,
                  section |-> original_obj.section] >>
         ELSE <<>>
    ELSE <<>>

FormatChange(obj_name, original_obj, modified_obj) ==
    IF original_obj.data.formatting # modified_obj.data.formatting
    THEN << [type |-> "format", target |-> obj_name,
             old_formatting |-> original_obj.data.formatting,
             new_formatting |-> modified_obj.data.formatting,
             section |-> original_obj.section] >>
    ELSE <<>>

\* "hide_section" / "show_section", comparing the sections by position
SectionChange(original_section, modified_section) ==
    LET original_hidden == Truthy(original_section.hidden)
        modified_hidden == Truthy(modified_section.hidden)
    IN IF ~original_hidden /\ modified_hidden
       THEN << [type |-> "hide_section", target |-> original_section.name] >>
       ELSE IF original_hidden /\ ~modified_hidden
       THEN << [type |-> "show_section", target |-> original_section.name] >>
       ELSE <<>>

SectionChanges(original_sections, modified_sections) ==
    Concat([i \in DOMAIN original_sections |->
              IF i <= Len(modified_sections)
              THEN SectionChange(original_sections[i], modified_sections[i])
              ELSE <<>>])

\* LineageRenameChanges that does not look at the changes found already
LineageRenameChanges_repeats(original_field_lineage, modified_field_lineage, changes) ==
    LET lineage_removed == (DOMAIN original_field_lineage) \ (DOMAIN modified_field_lineage)
        lineage_added == (DOMAIN modified_field_lineage) \ (DOMAIN original_field_lineage)
    IN IF /\ original_field_lineage # EmptyMap \/ modified_field_lineage # EmptyMap
          /\ Cardinality(lineage_removed) = 1 /\ Cardinality(lineage_added) = 1
       THEN << [type |-> "rename", old_value |-> TheOne(lineage_removed),
                new_value |-> TheOne(lineage_added), section |-> "Field Lineage"] >>
       ELSE <<>>

\* "rename" from the field lineage, unless changes holds that rename already
LineageRenameChanges(original_field_lineage, modified_field_lineage, changes) ==
    LET lineage_removed == (DOMAIN original_field_lineage) \ (DOMAIN modified_field_lineage)
        lineage_added == (DOMAIN modified_field_lineage) \ (DOMAIN original_field_lineage)
    IN IF /\ original_field_lineage # EmptyMap \/ modified_field_lineage # EmptyMap
          /\ Cardinality(lineage_removed) = 1 /\ Cardinality(lineage_added) = 1
       THEN LET old_name == TheOne(lineage_removed)
                new_name == TheOne(lineage_added)
            IN IF \E i \in DOMAIN changes :
                     /\ changes[i].type = "rename"
                     /\ changes[i].old_value = old_name
                     /\ changes[i].new_value = new_name
               THEN <<>>
               ELSE << [type |-> "rename", old_value |-> old_name,
                        new_value |-> new_name, section |-> "Field Lineage"] >>
       ELSE <<>>

\* Summary that always writes "changes"
Summary_always_plural(changes) ==
    IF changes # <<>>
    THEN [text |-> "Will make N changes: T",
          change_count |-> Len(changes),
          change_types |-> { changes[i].type : i \in DOMAIN changes }]
    ELSE [text |-> "No changes detected", change_count |-> 0, change_types |-> {}]

\* The summary line.  The change types are joined in the iteration order of
\* a set, so they are kept as a set.
Summary(changes) ==
    IF changes # <<>>
    THEN [text |-> IF Len(changes) # 1 THEN "Will make N changes: T"
                   ELSE "Will make N change: T",
          change_count |-> Len(changes),
          change_types |-> { changes[i].type : i \in DOMAIN changes }]
    ELSE [text |-> "No changes detected", change_count |-> 0, change_types |-> {}]

create_edit_preview(original, modified) ==
    LET original_objects == get_all_objects_from_sections(original)
        modified_objects == get_all_objects_from_sections(modified)
        common == InOrder((DOMAIN original_objects) \cap (DOMAIN modified_objects))
        each(Change(_, _, _)) ==
            Concat([i \in DOMAIN common |->
                      Change(common[i], original_objects[common[i]],
                             modified_objects[common[i]])])
        object_changes ==
            RenameChanges(original_objects, modified_objects)
            \o each(VisibilityChange) \o each(MoveChange)
            \o each(TextChange) \o each(FormatChange)
            \o SectionChanges(original.sections, modified.sections)
        changes ==
            object_changes
            \o LineageRenameChanges(original.field_lineage, modified.field_lineage,
                                    object_changes)
    IN [changes |-> changes, summary |-> Summary(changes)]

NoPreview == [none |-> TRUE]

(***************************************************************************)
(* The command parser: ReportEditService._fallback_parse_command.          *)
(* An instruction is a sequence of tokens separated by blanks; a token is  *)
(* a word or a name in quotes.  The words and names are those of Tokens:   *)
(* no word holds a keyword as a proper part, and no two names of a         *)
(* document differ in case only.                                           *)
(***************************************************************************)
MaxTokens == 4

Word(text) == [quoted |-> FALSE, text |-> text]

Quoted(text) == [quoted |-> TRUE, text |-> text]

Tokens ==
    { Word(w) : w \in {"rename", "hide", "show", "move", "change", "title", "to", "Total"} }
    \cup { Quoted(q) : q \in {"total", "Title", "Sum"} }

Instructions == UNION { [1..n -> Tokens] : n \in 1..MaxTokens }

\* str.lower()
lower(text) ==
    CASE text = "Total" -> "total"
      [] text = "Title" -> "title"
      [] text = "Sum" -> "sum"
      [] OTHER -> text

\* str.title() of a lower-case word
title(text) ==
    CASE text = "total" -> "Total"
      [] text = "title" -> "Title"
      [] text = "sum" -> "Sum"
      [] text = "rename" -> "Rename"
      [] text = "hide" -> "Hide"
      [] text = "show" -> "Show"
      [] text = "move" -> "Move"
      [] text = "change" -> "Change"
      [] text = "to" -> "To"
      [] OTHER -> text

\* the characters of a token in command_lower; the quotes count in [^\s]+
RawLower(token) ==
    IF token.quoted THEN "'" \o lower(token.text) \o "'" ELSE lower(token.text)

\* RawLower(token).title()
RawTitle(token) ==
    IF token.quoted THEN "'" \o title(lower(token.text)) \o "'"
    ELSE title(lower(token.text))

\* keyword in command_lower
Contains(cmd, keyword) == \E i \in DOMAIN cmd : lower(cmd[i].text) = keyword

\* the least element of a non-empty set of indices, and the greatest
Least(S) == CHOOSE i \in S : \A j \in S : i <= j

Greatest(S) == CHOOSE i \in S : \A j \in S : j <= i

NoMatch == [matched |-> FALSE]

\* the "to" of rename\s+'(old)'[\s\w]*to\s+'(new)' for the "rename" at i: the
\* token before the first quoted token after old, when it is the word "to"
\* and only words stand between old and it
LabelledTo(cmd, i) ==
    LET later == { k \in DOMAIN cmd : k > i + 1 /\ cmd[k].quoted }
    IN IF i + 1 \in DOMAIN cmd /\ cmd[i + 1].quoted /\ later # {}
          /\ Least(later) > i + 2 /\ cmd[Least(later) - 1] = Word("to")
       THEN Least(later) - 1
       ELSE 0

\* re.search of the first pattern: the leftmost "rename" that matches
QuotedPattern(cmd) ==
    LET starts == { i \in DOMAIN cmd : cmd[i] = Word("rename") /\ LabelledTo(cmd, i) # 0 }
    IN IF starts = {} THEN NoMatch
       ELSE LET i == Least(starts)
            IN [matched |-> TRUE,
                group1 |-> lower(cmd[i + 1].text),
                group2 |-> lower(cmd[LabelledTo(cmd, i) + 1].text),
                new_name |-> title(lower(cmd[LabelledTo(cmd, i) + 1].text))]

\* the "to" of rename\s+(old)[\s\w]*to\s+(new) for the "rename" at i: the
\* last word "to" that only words separate from old and a token follows
BareTo(cmd, i) ==
    LET tos == { j \in DOMAIN cmd :
                   /\ j > i + 1 /\ j + 1 \in DOMAIN cmd
                   /\ cmd[j] = Word("to")
                   /\ \A k \in (i + 2)..(j - 1) : ~cmd[k].quoted }
    IN IF i + 1 \in DOMAIN cmd /\ tos # {} THEN Greatest(tos) ELSE 0

\* re.search of the second pattern
BarePattern(cmd) ==
    LET starts == { i \in DOMAIN cmd : cmd[i] = Word("rename") /\ BareTo(cmd, i) # 0 }
    IN IF starts = {} THEN NoMatch
       ELSE LET i == Least(starts)
            IN [matched |-> TRUE,
                group1 |-> RawLower(cmd[i + 1]),
                group2 |-> RawLower(cmd[BareTo(cmd, i) + 1]),
                new_name |-> RawTitle(cmd[BareTo(cmd, i) + 1])]

\* re.findall(r"['\"]([^'\"]+)['\"]", command)
quoted_strings(cmd) ==
    LET quoted == SelectSeq(cmd, LAMBDA t : t.quoted)
    IN [i \in DOMAIN quoted |-> quoted[i].text]

available_fields(metadata) == DOMAIN metadata.field_lineage

available_text_objects(metadata) ==
    Concat([i \in DOMAIN metadata.sections |->
              [j \in DOMAIN metadata.sections[i].text_objects |->
                  metadata.sections[i].text_objects[j].name]])

\* the first of available_fields + available_text_objects that equals
\* old_name when both are lower-cased, None when there is none
ResolveTarget(metadata, old_name) ==
    LET fields == { f \in available_fields(metadata) : lower(f) = lower(old_name) }
        texts == available_text_objects(metadata)
        at == { i \in DOMAIN texts : lower(texts[i]) = lower(old_name) }
    IN IF fields # {} THEN CHOOSE f \in fields : TRUE
       ELSE IF at # {} THEN texts[Least(at)]
       ELSE None

NoResult == [none |-> TRUE]

FallbackReturned(result) == [result |-> result, error |-> "", command |-> <<>>]

\* the exception a call raised: its class and the instruction its message
\* quotes (<<>> when it quotes none)
FallbackRaised(exception, cmd) ==
    [result |-> NoResult, error |-> exception, command |-> cmd]

ParseError == "ValueError: Could not parse command"

UnboundLocalError == "UnboundLocalError: cannot access local variable 're'"

RenameResult(target, new_value) ==
    [edit_type |-> "rename_field", target |-> target, new_value |-> new_value]

\* the rename branch: the two patterns in turn, then the first two quoted
\* strings; when none resolves a target the final raise is reached
RenameBranch(cmd, metadata) ==
    LET m1 == QuotedPattern(cmd)
        m2 == BarePattern(cmd)
        q == quoted_strings(cmd)
        t1 == IF m1.matched THEN ResolveTarget(metadata, m1.group1) ELSE None
        t2 == IF m2.matched THEN ResolveTarget(metadata, m2.group1) ELSE None
        t3 == IF Len(q) >= 2 THEN ResolveTarget(metadata, q[1]) ELSE None
    IN IF t1 # None THEN FallbackReturned(RenameResult(t1, m1.new_name))
       ELSE IF t2 # None THEN FallbackReturned(RenameResult(t2, m2.new_name))
       ELSE IF t3 # None THEN FallbackReturned(RenameResult(t3, q[2]))
       ELSE FallbackRaised(ParseError, cmd)

\* _fallback_parse_command with the quoted-strings step of the rename branch
\* run for every instruction, whatever its keywords
_fallback_parse_command_quotes_anywhere(cmd, metadata) ==
    LET q == quoted_strings(cmd)
        t3 == IF Len(q) >= 2 THEN ResolveTarget(metadata, q[1]) ELSE None
    IN IF Contains(cmd, "rename") THEN RenameBranch(cmd, metadata)
       ELSE IF t3 # None THEN FallbackReturned(RenameResult(t3, q[2]))
       ELSE IF Contains(cmd, "hide") THEN FallbackRaised(UnboundLocalError, <<>>)
       ELSE IF Contains(cmd, "show") THEN FallbackRaised(UnboundLocalError, <<>>)
       ELSE IF Contains(cmd, "move") THEN FallbackRaised(UnboundLocalError, <<>>)
       ELSE IF Contains(cmd, "change") /\ Contains(cmd, "title")
       THEN FallbackRaised(UnboundLocalError, <<>>)
       ELSE FallbackRaised(ParseError, cmd)

\* "import re" is a statement of the rename branch, which makes re a local
\* name of the whole function: every other branch starts with re.search and
\* raises UnboundLocalError there
_fallback_parse_command(cmd, metadata) ==
    IF Contains(cmd, "rename") THEN RenameBranch(cmd, metadata)
    ELSE IF Contains(cmd, "hide") THEN FallbackRaised(UnboundLocalError, <<>>)
    ELSE IF Contains(cmd, "show") THEN FallbackRaised(UnboundLocalError, <<>>)
    ELSE IF Contains(cmd, "move") THEN FallbackRaised(UnboundLocalError, <<>>)
    ELSE IF Contains(cmd, "change") /\ Contains(cmd, "title")
    THEN FallbackRaised(UnboundLocalError, <<>>)
    ELSE FallbackRaised(ParseError, cmd)

NoResponse == [none |-> TRUE]

(***************************************************************************)
(* ReportEditService.parse_edit_command.  The text the interpreter returns *)
(* is, after strip(), a sequence of tokens: words that are no JSON, the    *)
(* braces, and the "key": value pairs of an object.                        *)
(***************************************************************************)
EditTypes ==
    {"rename_field", "hide_field", "show_field", "move_field",
     "change_text", "hide_section", "show_section", "format_field"}

Text == [kind |-> "text"]

OpenBrace == [kind |-> "{"]

CloseBrace == [kind |-> "}"]

Pair(key, value) == [kind |-> "pair", key |-> key, value |-> value]

\* the text of a JSON object with these pairs
Object(pairs) == <<OpenBrace>> \o pairs \o <<CloseBrace>>

\* json.loads: a dict when the text is an object, JSONDecodeError otherwise;
\* the last pair of a key gives its value
json_loads(content) ==
    LET n == Len(content)
        is_object ==
            /\ n >= 2
            /\ content[1] = OpenBrace
            /\ content[n] = CloseBrace
            /\ \A i \in 2..(n - 1) : content[i].kind = "pair"
        keys == { content[i].key : i \in 2..(n - 1) }
        last(k) == Greatest({ i \in 2..(n - 1) : content[i].key = k })
    IN IF is_object
       THEN [ok |-> TRUE, value |-> [k \in keys |-> content[last(k)].value]]
       ELSE [ok |-> FALSE, value |-> NoResult]

\* response_content[start:end] with start = find("{"), end = rfind("}") + 1
json_part(content) ==
    LET opens == { i \in DOMAIN content : content[i] = OpenBrace }
        closes == { i \in DOMAIN content : content[i] = CloseBrace }
    IN IF opens # {} /\ closes # {}
       THEN SubSeq(content, Least(opens), Greatest(closes))
       ELSE <<>>

\* result.get(key)
Get(result, key) == IF key \in DOMAIN result THEN result[key] ELSE None

\* EditCommand(edit_type=EditType(result["edit_type"]), ...)
ToEditCommand(result) ==
    EditCommand(result["edit_type"], result["target"], Get(result, "new_value"),
                Get(result, "target_section"), Get(result, "parameters"))

\* the outcome of the body of the try statement: a command, or the message
\* of the exception raised in it
Parsed(cmd) == [edit_command |-> cmd, exception |-> ""]

Failed(message) == [edit_command |-> NoCommand, exception |-> message]

\* result once it is known: the validation and the conversion
Validate(result) ==
    IF "edit_type" \notin DOMAIN result \/ "target" \notin DOMAIN result
    THEN Failed("Invalid response format: missing required fields")
    ELSE IF result["edit_type"] \notin EditTypes
    THEN Failed("not a valid EditType")
    ELSE Parsed(ToEditCommand(result))

\* lines 77-138: the outcome of the body of the try statement, and whether
\* it called _fallback_parse_command, whose outcome is fallback
TryInterpreter(resp, fallback) ==
    LET content == resp.content
        loaded == json_loads(content)
        extracted == json_loads(json_part(content))
        direct(outcome) == [outcome |-> outcome, fallback_called |-> FALSE]
        by_rules(outcome) == [outcome |-> outcome, fallback_called |-> TRUE]
    IN IF resp.raises THEN direct(Failed("interpreter call failed"))
       ELSE IF content = <<>> THEN direct(Failed("Empty response from GPT-4o"))
       ELSE IF loaded.ok THEN direct(Validate(loaded.value))
       ELSE IF extracted.ok THEN direct(Validate(extracted.value))
       ELSE IF fallback.error = "" THEN by_rules(Validate(fallback.result))
       ELSE by_rules(Failed(fallback.error))

\* parse_edit_command whose except clause raises without trying the fallback
parse_edit_command_no_last_resort(cmd, metadata, configured, resp) ==
    LET fallback == _fallback_parse_command(cmd, metadata)
        tried == TryInterpreter(resp, fallback)
    IN IF ~configured
       THEN [edit_command |-> NoCommand,
             error |-> "OpenAI API key not configured",
             fallback |-> NoResult]
       ELSE [edit_command |-> tried.outcome.edit_command,
             error |-> IF tried.outcome.exception = "" THEN ""
                       ELSE "Failed to parse edit command: " \o tried.outcome.exception,
             fallback |-> IF tried.fallback_called THEN fallback ELSE NoResult]

\* The outcome of one call: the command returned (NoCommand when the call
\* raised), the message of the ValueError raised ("" when it returned), and
\* the outcome of the last call of _fallback_parse_command it made (NoResult
\* when it made none).
parse_edit_command(cmd, metadata, configured, resp) ==
    LET fallback == _fallback_parse_command(cmd, metadata)
        tried == TryInterpreter(resp, fallback)
    IN IF ~configured
       THEN [edit_command |-> NoCommand,
             error |-> "OpenAI API key not configured",
             fallback |-> NoResult]
       ELSE IF tried.outcome.exception = ""
       THEN [edit_command |-> tried.outcome.edit_command, error |-> "",
             fallback |-> IF tried.fallback_called THEN fallback ELSE NoResult]
       ELSE IF fallback.error = ""
       THEN [edit_command |-> ToEditCommand(fallback.result), error |-> "",
             fallback |-> fallback]
       ELSE [edit_command |-> NoCommand,
             error |-> "Failed to parse edit command: " \o tried.outcome.exception
                          \o ". Fallback also failed: " \o fallback.error,
             fallback |-> fallback]

(***************************************************************************)
(* The state machine: the apply-edit request of main.py, one action per    *)
(* edit type, with the command as parse_edit_command hands it over, and a  *)
(* direct call of create_edit_preview on a stored snapshot.                *)
(*   report_cache       ReportQAService.report_cache                       *)
(*   edit_history       ReportEditService.edit_history                     *)
(*   snapshots          the documents stored for a report id, oldest first *)
(*   report_id, edit_command   the arguments of the last apply_edit call   *)
(*   original_metadata  the caller's document after the last call          *)
(*   modified_metadata  the document the last call returned, or NoDoc      *)
(*   preview            the last result of create_edit_preview             *)
(*   error              the message of the error the last call raised      *)
(*   client             whether ReportEditService.client is configured     *)
(*   command            the instruction text of the last parser call       *)
(*   response           what the interpreter answered in that call         *)
(*   fallback_result    the outcome of the last _fallback_parse_command    *)
(*   requests           the apply-edit requests: where each is in the      *)
(*                      handler, its report id and the document it read    *)
(***************************************************************************)
TargetSections == SectionNames \cup {None}

\* the apply-edit requests that may be in flight together
Requests == {"q1", "q2"}

\* a request not yet received
Idle == [pc |-> "idle", report_id |-> None, original_metadata |-> NoDoc]

NoRequests == [q \in Requests |-> Idle]

Init ==
    /\ \E d \in Uploads : /\ report_cache = [id \in ReportIds |-> d]
                          /\ snapshots = [id \in ReportIds |-> <<d>>]
    /\ edit_history = [id \in ReportIds |-> <<>>]
    /\ report_id = None
    /\ edit_command = NoCommand
    /\ original_metadata = NoDoc
    /\ modified_metadata = NoDoc
    /\ preview = NoPreview
    /\ error = ""
    /\ client = TRUE
    /\ command = <<>>
    /\ response = NoResponse
    /\ fallback_result = NoResult
    /\ requests = NoRequests

\* main.apply_edit from the point where the command is parsed
ApplyEditRequest(id, cmd) ==
    /\ report_cache[id] # NoDoc
    /\ Len(edit_history[id]) < MaxEdits
    /\ LET r == apply_edit(id, cmd, report_cache[id], edit_history[id])
       IN /\ report_id' = id
          /\ edit_command' = cmd
          /\ edit_history' = [edit_history EXCEPT ![id] = r.edit_history]
          /\ original_metadata' = r.metadata
          /\ modified_metadata' = r.modified_metadata
          /\ error' = r.error
          /\ IF r.error = ""
             THEN /\ report_cache' = [report_cache EXCEPT ![id] = r.modified_metadata]
                  /\ snapshots' = [snapshots EXCEPT ![id] = Append(@, r.modified_metadata)]
                  /\ preview' = create_edit_preview(r.metadata, r.modified_metadata)
             ELSE /\ preview' = NoPreview
                  /\ UNCHANGED <<report_cache, snapshots>>
          /\ UNCHANGED <<parser_vars, requests>>

RenameField ==
    \E id \in ReportIds, target \in ObjectNames, new_value \in NewNames :
        ApplyEditRequest(id, EditCommand("rename_field", target, new_value, None, EmptyMap))

HideField ==
    \E id \in ReportIds, target \in ObjectNames :
        ApplyEditRequest(id, EditCommand("hide_field", target, None, None, EmptyMap))

ShowField ==
    \E id \in ReportIds, target \in ObjectNames :
        ApplyEditRequest(id, EditCommand("show_field", target, None, None, EmptyMap))

MoveField ==
    \E id \in ReportIds, target \in MoveTargets, target_section \in TargetSections :
        ApplyEditRequest(id, EditCommand("move_field", target, None, target_section, EmptyMap))

ChangeText ==
    \E id \in ReportIds, target \in TextTargets, new_value \in NewTexts :
        ApplyEditRequest(id, EditCommand("change_text", target, new_value, None, EmptyMap))

HideSection ==
    \E id \in ReportIds, target \in SectionNames :
        ApplyEditRequest(id, EditCommand("hide_section", target, None, None, EmptyMap))

ShowSection ==
    \E id \in ReportIds, target \in SectionNames :
        ApplyEditRequest(id, EditCommand("show_section", target, None, None, EmptyMap))

FormatField ==
    \E id \in ReportIds, target \in FormatTargets, parameters \in FormatParameters :
        ApplyEditRequest(id, EditCommand("format_field", target, None, None, parameters))

\* create_edit_preview called with the uploaded snapshot and the current document
CreateEditPreview ==
    \E id \in ReportIds, i \in {1} :
        /\ report_id' = id
        /\ edit_command' = NoCommand
        /\ original_metadata' = snapshots[id][i]
        /\ modified_metadata' = report_cache[id]
        /\ preview' = create_edit_preview(snapshots[id][i], report_cache[id])
        /\ error' = ""
        /\ UNCHANGED <<report_cache, edit_history, snapshots>>
        /\ UNCHANGED <<parser_vars, requests>>

Next ==
    \/ RenameField
    \/ HideField
    \/ ShowField
    \/ MoveField
    \/ ChangeText
    \/ HideSection
    \/ ShowSection
    \/ FormatField
    \/ CreateEditPreview

Spec == Init /\ [][Next]_vars

(***************************************************************************)
(* The requests of main.py that call apply_edit, for two reports:          *)
(* apply-edit, which stores the document returned, and preview-edit and    *)
(* visual-preview, which do not.  The commands are as parse_edit_command   *)
(* hands them over.                                                        *)
(***************************************************************************)
LedgerIds == {"r1", "r2"}

\* a text object named Title in two sections
TwoTitlesFile ==
    [sections |-> << [name |-> "Header",  objects |-> << <<"TextObject", "Title">>,
                                                        <<"FieldObject", "Total">> >>],
                     [name |-> "Details", objects |-> << <<"TextObject", "Title">> >>] >>,
     formulas |-> {}]

LedgerUploads == { _normalize_xml_to_json(TwoTitlesFile, "parsed") }

\* a section name no uploaded document holds
MissingSection == "Footer"

LedgerCommands ==
    { EditCommand("hide_field", "Total", None, None, EmptyMap),
      EditCommand("change_text", "Title", "Report", None, EmptyMap),
      EditCommand("move_field", "Total", None, MissingSection, EmptyMap),
      EditCommand("move_field", "Total", None, None, EmptyMap) }

LedgerInit ==
    /\ \E d \in LedgerUploads : /\ report_cache = [id \in LedgerIds |-> d]
                                /\ snapshots = [id \in LedgerIds |-> <<d>>]
    /\ edit_history = [id \in LedgerIds |-> <<>>]
    /\ report_id = None
    /\ edit_command = NoCommand
    /\ original_metadata = NoDoc
    /\ modified_metadata = NoDoc
    /\ preview = NoPreview
    /\ error = ""
    /\ client = TRUE
    /\ command = <<>>
    /\ response = NoResponse
    /\ fallback_result = NoResult
    /\ requests = NoRequests

\* main.preview_edit and main.get_visual_preview from the point where the
\* command is parsed: apply_edit and create_edit_preview, nothing stored
PreviewEditRequest(id, cmd) ==
    /\ report_cache[id] # NoDoc
    /\ Len(edit_history[id]) < MaxEdits
    /\ LET r == apply_edit(id, cmd, report_cache[id], edit_history[id])
       IN /\ report_id' = id
          /\ edit_command' = cmd
          /\ edit_history' = [edit_history EXCEPT ![id] = r.edit_history]
          /\ original_metadata' = r.metadata
          /\ modified_metadata' = r.modified_metadata
          /\ error' = r.error
          /\ preview' = IF r.error = ""
                        THEN create_edit_preview(r.metadata, r.modified_metadata)
                        ELSE NoPreview
          /\ UNCHANGED <<report_cache, snapshots>>
          /\ UNCHANGED <<parser_vars, requests>>

ApplyEdit == \E id \in LedgerIds, cmd \in LedgerCommands : ApplyEditRequest(id, cmd)

PreviewEdit == \E id \in LedgerIds, cmd \in LedgerCommands : PreviewEditRequest(id, cmd)

VisualPreview == \E id \in LedgerIds, cmd \in LedgerCommands : PreviewEditRequest(id, cmd)

LedgerNext ==
    \/ ApplyEdit
    \/ PreviewEdit
    \/ VisualPreview

LedgerSpec == LedgerInit /\ [][LedgerNext]_vars

(***************************************************************************)
(* The fallback parser called on any instruction, with the document of an  *)
(* uploaded report                                                         *)
(***************************************************************************)
\* BasicFile as the parser stores it (field Total, text object Title) and as
\* the mock report stores it (no field_lineage)
FallbackDocuments == { _normalize_xml_to_json(BasicFile, "parsed"), mock_metadata(BasicFile) }

FallbackInit ==
    /\ \E d \in FallbackDocuments : /\ report_cache = [id \in ReportIds |-> d]
                                    /\ snapshots = [id \in ReportIds |-> <<d>>]
    /\ edit_history = [id \in ReportIds |-> <<>>]
    /\ report_id = None
    /\ edit_command = NoCommand
    /\ original_metadata = NoDoc
    /\ modified_metadata = NoDoc
    /\ preview = NoPreview
    /\ error = ""
    /\ client = FALSE
    /\ command \in Instructions
    /\ response = NoResponse
    /\ fallback_result = NoResult
    /\ requests = NoRequests

FallbackParseCommand ==
    \E id \in ReportIds :
        /\ fallback_result = NoResult
        /\ report_id' = id
        /\ fallback_result' = _fallback_parse_command(command, report_cache[id])
        /\ UNCHANGED <<report_cache, edit_history, snapshots, edit_command,
                       original_metadata, modified_metadata, preview, error,
                       client, command, response, requests>>

FallbackNext == FallbackParseCommand

FallbackSpec == FallbackInit /\ [][FallbackNext]_vars

(***************************************************************************)
(* parse_edit_command called with an instruction, the document of an       *)
(* uploaded report and whatever the interpreter answers                    *)
(***************************************************************************)
\* the instructions of the requests
RequestCommands ==
    { <<Word("rename"), Quoted("total"), Word("to"), Quoted("Sum")>>,
      <<Word("rename"), Word("Total"), Word("to"), Quoted("Sum")>>,
      <<Word("rename"), Quoted("Sum"), Word("to"), Quoted("total")>>,
      <<Word("hide"), Quoted("total")>>,
      <<Word("show"), Quoted("total")>>,
      <<Word("move"), Quoted("total")>>,
      <<Word("change"), Word("title"), Word("to"), Quoted("Sum")>>,
      <<Word("Total")>> }

\* the objects the interpreter may answer: a valid command, a payload
\* without edit_type, one without target, and one with an unknown edit_type
Payloads ==
    { <<Pair("edit_type", "hide_field"), Pair("target", "Total")>>,
      <<Pair("edit_type", "move_field"), Pair("target", "Total"),
        Pair("target_section", "Header")>>,
      <<Pair("target", "Total")>>,
      <<Pair("edit_type", "hide_field")>>,
      <<Pair("edit_type", "delete_field"), Pair("target", "Total")>> }

Answered(content) == [raises |-> FALSE, content |-> content]

\* the call raises; an empty text; text that is no JSON, without braces,
\* with braces around no object, with the braces in the wrong order; an
\* object; an object wrapped in text
Responses ==
    { [raises |-> TRUE, content |-> <<>>] }
    \cup { Answered(c) : c \in { <<>>, <<Text>>, <<Text, OpenBrace, Text, CloseBrace>>,
                                 <<CloseBrace, Text, OpenBrace>> } }
    \cup { Answered(Object(p)) : p \in Payloads }
    \cup { Answered(<<Text>> \o Object(p) \o <<Text>>) : p \in Payloads }

ParseInit ==
    /\ \E d \in FallbackDocuments : /\ report_cache = [id \in ReportIds |-> d]
                                    /\ snapshots = [id \in ReportIds |-> <<d>>]
    /\ edit_history = [id \in ReportIds |-> <<>>]
    /\ report_id = None
    /\ edit_command = NoCommand
    /\ original_metadata = NoDoc
    /\ modified_metadata = NoDoc
    /\ preview = NoPreview
    /\ error = ""
    /\ client \in BOOLEAN
    /\ command = <<>>
    /\ response = NoResponse
    /\ fallback_result = NoResult
    /\ requests = NoRequests

\* one call of parse_edit_command; response is what the interpreter
\* answered, NoResponse when it was not called
ParseEditCommand ==
    \E id \in ReportIds, cmd \in RequestCommands, resp \in Responses :
        LET r == parse_edit_command(cmd, report_cache[id], client, resp)
        IN /\ report_id' = id
           /\ command' = cmd
           /\ response' = IF client THEN resp ELSE NoResponse
           /\ edit_command' = r.edit_command
           /\ error' = r.error
           /\ fallback_result' = r.fallback
           /\ UNCHANGED <<report_cache, edit_history, snapshots, original_metadata,
                          modified_metadata, preview, client, requests>>

ParseNext == ParseEditCommand

ParseSpec == ParseInit /\ [][ParseNext]_vars

(***************************************************************************)
(* An editing session on one report: every kind of command, rename_field   *)
(* also aimed at the lineage key of a formula, which names no object, and  *)
(* create_edit_preview called with any earlier document of the session and *)
(* the current one                                                         *)
(***************************************************************************)
\* a text object that is no lineage key, a field and a formula
TextAndFormulaFile ==
    [sections |-> << [name |-> "Header",  objects |-> << <<"TextObject", "Title">> >>],
                     [name |-> "Details", objects |-> << <<"FieldObject", "Total">> >>] >>,
     formulas |-> {"Sum"}]

SessionUploads ==
    { _normalize_xml_to_json(f, "parsed") :
        f \in {FormulaFile, SameSectionNameFile, TextAndFormulaFile} }
    \cup { mock_metadata(f) : f \in MockFiles }

\* the names of the formulas of the uploaded reports
FormulaNames == FormulaFile.formulas

SessionCommands ==
    { EditCommand(t, target, None, None, EmptyMap) :
        t \in {"hide_field", "show_field"}, target \in MoveTargets }
    \cup { EditCommand("rename_field", target, new_value, None, EmptyMap) :
             target \in ObjectNames \cup FormulaNames, new_value \in NewNames }
    \cup { EditCommand("move_field", target, None, "Header", EmptyMap) :
             target \in MoveTargets }
    \cup { EditCommand("change_text", target, new_value, None, EmptyMap) :
             target \in TextTargets, new_value \in NewTexts }
    \cup { EditCommand(t, "Details", None, None, EmptyMap) :
             t \in {"hide_section", "show_section"} }
    \cup { EditCommand("format_field", target, None, None, Bold) :
             target \in FormatTargets }

SessionInit ==
    /\ \E d \in SessionUploads : /\ report_cache = [id \in ReportIds |-> d]
                                 /\ snapshots = [id \in ReportIds |-> <<d>>]
    /\ edit_history = [id \in ReportIds |-> <<>>]
    /\ report_id = None
    /\ edit_command = NoCommand
    /\ original_metadata = NoDoc
    /\ modified_metadata = NoDoc
    /\ preview = NoPreview
    /\ error = ""
    /\ client = TRUE
    /\ command = <<>>
    /\ response = NoResponse
    /\ fallback_result = NoResult
    /\ requests = NoRequests

SessionEdit == \E id \in ReportIds, cmd \in SessionCommands : ApplyEditRequest(id, cmd)

\* create_edit_preview called with an earlier document of the report and
\* the current one
CompareWithEarlier ==
    \E id \in ReportIds, i \in 1..(MaxEdits + 1) :
        /\ i \in DOMAIN snapshots[id]
        /\ report_id' = id
        /\ edit_command' = NoCommand
        /\ original_metadata' = snapshots[id][i]
        /\ modified_metadata' = report_cache[id]
        /\ preview' = create_edit_preview(snapshots[id][i], report_cache[id])
        /\ error' = ""
        /\ UNCHANGED <<report_cache, edit_history, snapshots>>
        /\ UNCHANGED <<parser_vars, requests>>

SessionNext ==
    \/ SessionEdit
    \/ CompareWithEarlier

SessionSpec == SessionInit /\ [][SessionNext]_vars

(***************************************************************************)
(* Apply-edit requests that overlap.  main.apply_edit reads the stored     *)
(* document, then awaits parse_edit_command, which suspends in the call of *)
(* the interpreter; when the answer is there the handler runs to its end   *)
(* without another suspension: apply_edit on the document it read, the     *)
(* store, the preview.  Another request may run while one is suspended.    *)
(***************************************************************************)
OverlapInit ==
    /\ \E d \in LedgerUploads : /\ report_cache = [id \in LedgerIds |-> d]
                                /\ snapshots = [id \in LedgerIds |-> <<d>>]
    /\ edit_history = [id \in LedgerIds |-> <<>>]
    /\ report_id = None
    /\ edit_command = NoCommand
    /\ original_metadata = NoDoc
    /\ modified_metadata = NoDoc
    /\ preview = NoPreview
    /\ error = ""
    /\ client = TRUE
    /\ command = <<>>
    /\ response = NoResponse
    /\ fallback_result = NoResult
    /\ requests = NoRequests

\* the handler up to the await: the document of the report is read from the
\* cache and parse_edit_command is entered
ReadMetadata ==
    \E q \in Requests, id \in LedgerIds :
        /\ requests[q].pc = "idle"
        /\ report_cache[id] # NoDoc
        /\ requests' = [requests EXCEPT ![q] = [pc |-> "parsing", report_id |-> id,
                                                original_metadata |-> report_cache[id]]]
        /\ UNCHANGED <<report_cache, edit_history, snapshots, report_id, edit_command,
                       original_metadata, modified_metadata, preview, error>>
        /\ UNCHANGED parser_vars

\* parse_edit_command raises: the handler answers with an error, nothing
\* is applied or stored
ParseRaises ==
    \E q \in Requests :
        /\ requests[q].pc = "parsing"
        /\ requests' = [requests EXCEPT ![q].pc = "done"]
        /\ report_id' = requests[q].report_id
        /\ edit_command' = NoCommand
        /\ original_metadata' = requests[q].original_metadata
        /\ modified_metadata' = NoDoc
        /\ preview' = NoPreview
        /\ error' = "Failed to apply edit: " \o ParseError
        /\ UNCHANGED <<report_cache, edit_history, snapshots>>
        /\ UNCHANGED parser_vars

\* parse_edit_command returns a command: the handler applies it to the
\* document it read, stores the result and builds the preview
ApplyAndStore ==
    \E q \in Requests, cmd \in LedgerCommands :
        /\ requests[q].pc = "parsing"
        /\ Len(edit_history[requests[q].report_id]) < MaxEdits
        /\ LET id == requests[q].report_id
               r == apply_edit(id, cmd, requests[q].original_metadata, edit_history[id])
           IN /\ requests' = [requests EXCEPT ![q].pc = "done"]
              /\ report_id' = id
              /\ edit_command' = cmd
              /\ edit_history' = [edit_history EXCEPT ![id] = r.edit_history]
              /\ original_metadata' = r.metadata
              /\ modified_metadata' = r.modified_metadata
              /\ error' = r.error
              /\ IF r.error = ""
                 THEN /\ report_cache' = [report_cache EXCEPT ![id] = r.modified_metadata]
                      /\ snapshots' = [snapshots EXCEPT ![id] = Append(@, r.modified_metadata)]
                      /\ preview' = create_edit_preview(r.metadata, r.modified_metadata)
                 ELSE /\ preview' = NoPreview
                      /\ UNCHANGED <<report_cache, snapshots>>
              /\ UNCHANGED parser_vars

OverlapNext ==
    \/ ReadMetadata
    \/ ParseRaises
    \/ ApplyAndStore

OverlapSpec == OverlapInit /\ [][OverlapNext]_vars

(***************************************************************************)
(* Properties                                                              *)
(***************************************************************************)
\* the last call of apply_edit was a command of this type and returned
Applied(edit_type) ==
    /\ edit_command.edit_type = edit_type
    /\ error = ""

\* the names of the objects of one kind in a document
NamesOf(metadata, kind) ==
    UNION { { metadata.sections[i][kind][j].name : j \in DOMAIN metadata.sections[i][kind] } :
            i \in DOMAIN metadata.sections }

FieldAndTextNames(metadata) ==
    NamesOf(metadata, "field_objects") \cup NamesOf(metadata, "text_objects")

SectionObjectNames(metadata) ==
    FieldAndTextNames(metadata) \cup NamesOf(metadata, "picture_objects")

RenameTargetPresent ==
    edit_command.target \in
        (DOMAIN original_metadata.field_lineage) \cup SectionObjectNames(original_metadata)

\* C1 as stated: after rename_field(target, new) on a document that holds
\* target as a lineage key or as the name of a section object, no section
\* object and no lineage key of the returned document is named target.
C1_AsStated ==
    (Applied("rename_field") /\ RenameTargetPresent)
        => /\ edit_command.target \notin SectionObjectNames(modified_metadata)
           /\ edit_command.target \notin DOMAIN modified_metadata.field_lineage

\* C1 amended: when the new name differs from target, no field object, no
\* text object and no lineage key of the returned document is named target
\* (picture objects are not renamed).
C1_RenameRemovesTarget ==
    (Applied("rename_field") /\ RenameTargetPresent
        /\ edit_command.new_value # edit_command.target)
        => /\ edit_command.target \notin FieldAndTextNames(modified_metadata)
           /\ edit_command.target \notin DOMAIN modified_metadata.field_lineage

C1_Witness ==
    /\ Applied("rename_field")
    /\ edit_command.new_value # edit_command.target
    /\ edit_command.target \in DOMAIN original_metadata.field_lineage
    /\ edit_command.target \in NamesOf(original_metadata, "field_objects")
    /\ edit_command.target \in NamesOf(original_metadata, "text_objects")
    /\ edit_command.new_value \in DOMAIN modified_metadata.field_lineage

\* the last two commands of the history of the last report are equal and the
\* last call applied the second of them
AppliedTwice(edit_type) ==
    LET h == edit_history[report_id]
    IN /\ Applied(edit_type)
       /\ Len(h) >= 2
       /\ h[Len(h)] = edit_command
       /\ h[Len(h) - 1] = edit_command

\* C2: hide_field is idempotent: applying hide_field(x) to the result of
\* hide_field(x) returns a document equal to that result.
C2_HideIdempotent ==
    AppliedTwice("hide_field") => modified_metadata = original_metadata

C2_Witness ==
    /\ AppliedTwice("hide_field")
    /\ LET s == snapshots[report_id]
       IN s[Len(s) - 2] # s[Len(s) - 1]
    /\ \E i \in DOMAIN modified_metadata.sections :
          \E j \in DOMAIN modified_metadata.sections[i].field_objects :
             /\ modified_metadata.sections[i].field_objects[j].name = edit_command.target
             /\ modified_metadata.sections[i].field_objects[j].hidden = "True"

\* the error apply_edit raises for a move_field without target_section (the
\* ValidationError of the specification)
ValidationError == "Failed to apply edit: Target section required for move operation"

\* C3: apply_edit with a move_field command that has no target_section
\* fails with the ValidationError and returns no document, whether or not
\* the document holds the target field.
C3_MoveWithoutSectionFails ==
    (edit_command.edit_type = "move_field" /\ edit_command.target_section = None)
        => /\ error = ValidationError
           /\ modified_metadata = NoDoc

C3_Witness ==
    /\ edit_command.edit_type = "move_field"
    /\ edit_command.target_section = None
    /\ edit_command.target \notin NamesOf(original_metadata, "field_objects")
    /\ error = ValidationError

NoChanges ==
    [changes |-> <<>>,
     summary |-> [text |-> "No changes detected", change_count |-> 0, change_types |-> {}]]

\* C4: create_edit_preview of a document with itself returns no change and
\* the summary "No changes detected".
C4_DiffOfEqualDocuments ==
    (preview # NoPreview /\ original_metadata = modified_metadata)
        => preview = NoChanges

\* a hidden field object shares its name with a text object
C4_Witness ==
    /\ preview # NoPreview
    /\ original_metadata = modified_metadata
    /\ \E i \in DOMAIN original_metadata.sections :
          \E j \in DOMAIN original_metadata.sections[i].field_objects :
             /\ original_metadata.sections[i].field_objects[j].hidden = "True"
             /\ original_metadata.sections[i].field_objects[j].name
                   \in NamesOf(original_metadata, "text_objects")

\* the sections of a document that hold a field object named x
SectionsWithField(metadata, x) ==
    { i \in DOMAIN metadata.sections :
        FirstNamed(metadata.sections[i].field_objects, x) # 0 }

\* the field objects named x of a document, as <<section, position>>
FieldsNamed(metadata, x) ==
    { p \in (DOMAIN metadata.sections) \X (1..Len(NameOrder)) :
        /\ p[2] \in DOMAIN metadata.sections[p[1]].field_objects
        /\ metadata.sections[p[1]].field_objects[p[2]].name = x }

\* no text object of section s or of a later section is named x
NoTextFrom(metadata, s, x) ==
    \A i \in DOMAIN metadata.sections :
        i >= s => FirstNamed(metadata.sections[i].text_objects, x) = 0

\* the last field object named x is not hidden
LastFieldVisible(metadata, x) ==
    \E p \in FieldsNamed(metadata, x) :
        /\ \A q \in FieldsNamed(metadata, x) : q[1] < p[1] \/ (q[1] = p[1] /\ q[2] <= p[2])
        /\ ~Truthy(metadata.sections[p[1]].field_objects[p[2]].hidden)

OneHide(x) ==
    /\ Len(preview.changes) = 1
    /\ preview.changes[1].type = "hide"
    /\ preview.changes[1].target = x

\* C5 as stated: when a field object named x occurs in exactly one section
\* of D, the preview of D and apply(D, hide_field(x)) holds exactly one
\* change, of type "hide" with target x.
C5_AsStated ==
    (Applied("hide_field")
        /\ Cardinality(SectionsWithField(original_metadata, edit_command.target)) = 1)
        => OneHide(edit_command.target)

\* C5 amended: the same when moreover the last field object named x is not
\* hidden in D and no text object of its section or of a later section is
\* named x.
C5_HideYieldsOneChange ==
    LET x == edit_command.target
        in_sections == SectionsWithField(original_metadata, x)
    IN (Applied("hide_field")
          /\ Cardinality(in_sections) = 1
          /\ LastFieldVisible(original_metadata, x)
          /\ \A s \in in_sections : NoTextFrom(original_metadata, s, x))
          => OneHide(x)

\* a text object named x precedes the field object, in an earlier section
C5_Witness ==
    LET x == edit_command.target
        in_sections == SectionsWithField(original_metadata, x)
    IN /\ Applied("hide_field")
       /\ Cardinality(in_sections) = 1
       /\ LastFieldVisible(original_metadata, x)
       /\ \A s \in in_sections : NoTextFrom(original_metadata, s, x)
       /\ x \in NamesOf(original_metadata, "text_objects")
       /\ OneHide(x)

\* the positions of the field and text objects of a document
Positions(metadata) ==
    { p \in (DOMAIN metadata.sections) \X {"field_objects", "text_objects"}
              \X (1..Len(NameOrder)) :
        p[3] \in DOMAIN metadata.sections[p[1]][p[2]] }

ObjectAt(metadata, p) == metadata.sections[p[1]][p[2]][p[3]]

\* two documents with the same sections and, position by position, the same
\* objects up to their names
SameUpToNames(D1, D2) ==
    /\ D1 # NoDoc /\ D2 # NoDoc
    /\ Len(D1.sections) = Len(D2.sections)
    /\ \A i \in DOMAIN D1.sections :
          /\ D1.sections[i].name = D2.sections[i].name
          /\ D1.sections[i].hidden = D2.sections[i].hidden
          /\ D1.sections[i].picture_objects = D2.sections[i].picture_objects
    /\ Positions(D1) = Positions(D2)
    /\ \A p \in Positions(D1) :
          ObjectAt(D2, p) = [ObjectAt(D1, p) EXCEPT !.name = ObjectAt(D2, p).name]

Renamed(D1, D2) ==
    { p \in Positions(D1) : ObjectAt(D1, p).name # ObjectAt(D2, p).name }

RenameChangesOf(p) ==
    { i \in DOMAIN p.changes : p.changes[i].type = "rename" }

\* the documents of the last preview differ in the name of one object only
OneObjectRenamed ==
    /\ preview # NoPreview
    /\ SameUpToNames(original_metadata, modified_metadata)
    /\ original_metadata.field_lineage = modified_metadata.field_lineage
    /\ Cardinality(Renamed(original_metadata, modified_metadata)) = 1

OneRenameReported ==
    \A p \in Renamed(original_metadata, modified_metadata) :
        /\ Cardinality(RenameChangesOf(preview)) = 1
        /\ \A i \in RenameChangesOf(preview) :
              /\ preview.changes[i].old_value = ObjectAt(original_metadata, p).name
              /\ preview.changes[i].new_value = ObjectAt(modified_metadata, p).name

\* C6 as stated: when D1 and D2 differ only in the name of one object, the
\* preview holds exactly one "rename" change, with the old and the new name.
C6_AsStated == OneObjectRenamed => OneRenameReported

\* C6 amended: the same when moreover no other field or text object of D1
\* carries the old name and no field or text object of D1 carries the new one.
C6_OneRenameInferred ==
    (OneObjectRenamed
        /\ \A p \in Renamed(original_metadata, modified_metadata) :
              /\ ObjectAt(original_metadata, p).name
                    \notin FieldAndTextNames(modified_metadata)
              /\ ObjectAt(modified_metadata, p).name
                    \notin FieldAndTextNames(original_metadata))
        => OneRenameReported

C6_Witness ==
    /\ OneObjectRenamed
    /\ \A p \in Renamed(original_metadata, modified_metadata) :
          /\ p[2] = "text_objects"
          /\ ObjectAt(original_metadata, p).name \notin FieldAndTextNames(modified_metadata)
          /\ ObjectAt(modified_metadata, p).name \notin FieldAndTextNames(original_metadata)
    /\ Cardinality(RenameChangesOf(preview)) = 1

\* the documents of the last preview differ in the names of two objects
TwoObjectsRenamed ==
    /\ preview # NoPreview
    /\ SameUpToNames(original_metadata, modified_metadata)
    /\ Cardinality(Renamed(original_metadata, modified_metadata)) = 2

\* C7 as stated: when two objects were renamed between D1 and D2, the
\* preview holds no "rename" change at all.
C7_AsStated == TwoObjectsRenamed => RenameChangesOf(preview) = {}

\* one lineage key disappeared and one appeared
OneLineageKeyRenamed ==
    /\ Cardinality((DOMAIN original_metadata.field_lineage)
                      \ (DOMAIN modified_metadata.field_lineage)) = 1
    /\ Cardinality((DOMAIN modified_metadata.field_lineage)
                      \ (DOMAIN original_metadata.field_lineage)) = 1

\* C7 amended: when two objects were renamed to two different names that no
\* field or text object of D1 carries, the section comparison infers no
\* rename; the only "rename" change the preview can hold is the one from the
\* field lineage, present exactly when one lineage key disappeared and one
\* appeared.
C7_TwoRenamesNotInferred ==
    LET new_names == { ObjectAt(modified_metadata, p).name :
                          p \in Renamed(original_metadata, modified_metadata) }
    IN (TwoObjectsRenamed
          /\ Cardinality(new_names) = 2
          /\ new_names \cap FieldAndTextNames(original_metadata) = {})
          => /\ \A i \in RenameChangesOf(preview) :
                   preview.changes[i].section = "Field Lineage"
             /\ Cardinality(RenameChangesOf(preview))
                   = IF OneLineageKeyRenamed THEN 1 ELSE 0

\* two objects of different names, one of them a lineage key
C7_Witness ==
    LET new_names == { ObjectAt(modified_metadata, p).name :
                          p \in Renamed(original_metadata, modified_metadata) }
    IN /\ TwoObjectsRenamed
       /\ Cardinality(new_names) = 2
       /\ new_names \cap FieldAndTextNames(original_metadata) = {}
       /\ Cardinality({ ObjectAt(original_metadata, p).name :
                           p \in Renamed(original_metadata, modified_metadata) }) = 2
       /\ OneLineageKeyRenamed
       /\ Cardinality(RenameChangesOf(preview)) = 1

\* the last two commands of the history of a report are format_field
\* commands for the same target
FormattedTwice(id) ==
    LET h == edit_history[id]
    IN /\ Len(h) >= 2
       /\ h[Len(h) - 1].edit_type = "format_field"
       /\ h[Len(h)].edit_type = "format_field"
       /\ h[Len(h) - 1].target = h[Len(h)].target

\* formatting holds every key of f0, p1 and p2 with the value of the latest
\* of them that sets it
MergedOf(formatting, f0, p1, p2) ==
    /\ (DOMAIN f0) \cup (DOMAIN p1) \cup (DOMAIN p2) \subseteq DOMAIN formatting
    /\ \A k \in (DOMAIN f0) \cup (DOMAIN p1) \cup (DOMAIN p2) :
          formatting[k] = IF k \in DOMAIN p2 THEN p2[k]
                          ELSE IF k \in DOMAIN p1 THEN p1[k]
                          ELSE f0[k]

\* C8: after format_field(x, P1) and then format_field(x, P2), the
\* formatting of the object x that format_field addresses (in every
\* section, the first field object and the first text object named x) holds
\* every key of its original formatting, of P1 and of P2, with the value of
\* the latest command that set the key.
C8_FormatMerges ==
    \A id \in ReportIds :
        FormattedTwice(id) =>
            LET h == edit_history[id]
                n == Len(h)
                before == snapshots[id][n - 1]
                after == snapshots[id][n + 1]
            IN \A i \in DOMAIN before.sections :
                 \A kind \in {"field_objects", "text_objects"} :
                    LET at == FirstNamed(before.sections[i][kind], h[n].target)
                    IN at # 0 =>
                         MergedOf(after.sections[i][kind][at].formatting,
                                  before.sections[i][kind][at].formatting,
                                  h[n - 1].parameters, h[n].parameters)

\* {font_size} formatted with {bold} and then {italic}
C8_Witness ==
    \E id \in ReportIds :
        /\ FormattedTwice(id)
        /\ LET h == edit_history[id]
               n == Len(h)
           IN /\ h[n - 1].parameters = Bold
              /\ h[n].parameters = Italic
              /\ \E i \in DOMAIN snapshots[id][n - 1].sections :
                    LET at == FirstNamed(snapshots[id][n - 1].sections[i].field_objects,
                                         h[n].target)
                    IN /\ at # 0
                       /\ snapshots[id][n - 1].sections[i].field_objects[at].formatting
                             = FontSize
                       /\ DOMAIN snapshots[id][n + 1].sections[i].field_objects[at].formatting
                             = {"font_size", "bold", "italic"}

\* every field object named x of D is not hidden and they are in one section
VisibleFieldInOneSection(metadata, x) ==
    /\ Cardinality(SectionsWithField(metadata, x)) = 1
    /\ \A p \in FieldsNamed(metadata, x) :
          ~Truthy(metadata.sections[p[1]].field_objects[p[2]].hidden)

HideApplied(x) ==
    /\ \A p \in FieldsNamed(original_metadata, x) :
          modified_metadata.sections[p[1]].field_objects[p[2]].hidden = "True"
    /\ x \in DOMAIN original_metadata.field_lineage
          => modified_metadata.field_lineage[x].hidden = "True"
    /\ OneHide(x)
    /\ preview.summary = [text |-> "Will make N change: T", change_count |-> 1,
                          change_types |-> {"hide"}]

\* C9 as stated: for D with a non-hidden field object x in one section,
\* hide_field(x) sets hidden on the field object and on the lineage entry of
\* x when there is one, and the preview holds exactly one change, a "hide",
\* with the summary "Will make 1 change: hide".
C9_AsStated ==
    (Applied("hide_field")
        /\ VisibleFieldInOneSection(original_metadata, edit_command.target))
        => HideApplied(edit_command.target)

\* C9 amended: the same when moreover no text object of that section or of a
\* later section is named x.
C9_HideScenario ==
    LET x == edit_command.target
    IN (Applied("hide_field")
          /\ VisibleFieldInOneSection(original_metadata, x)
          /\ \A s \in SectionsWithField(original_metadata, x) :
                NoTextFrom(original_metadata, s, x))
          => HideApplied(x)

C9_Witness ==
    LET x == edit_command.target
    IN /\ Applied("hide_field")
       /\ VisibleFieldInOneSection(original_metadata, x)
       /\ \A s \in SectionsWithField(original_metadata, x) :
             NoTextFrom(original_metadata, s, x)
       /\ x \in DOMAIN original_metadata.field_lineage
       /\ modified_metadata.field_lineage[x].hidden = "True"
       /\ preview.summary.change_count = 1

FallbackResolved ==
    /\ fallback_result # NoResult
    /\ fallback_result.result # NoResult

\* the edit type of the branch of the highest-priority keyword of the
\* instruction, None when it holds no keyword
BranchOf(cmd) ==
    IF Contains(cmd, "rename") THEN "rename_field"
    ELSE IF Contains(cmd, "hide") THEN "hide_field"
    ELSE IF Contains(cmd, "show") THEN "show_field"
    ELSE IF Contains(cmd, "move") THEN "move_field"
    ELSE IF Contains(cmd, "change") /\ Contains(cmd, "title") THEN "change_text"
    ELSE None

KeywordsOf(cmd) ==
    { k \in {"rename", "hide", "show", "move", "change", "title"} : Contains(cmd, k) }

\* C16: the fallback parser dispatches by the priority rename > hide > show
\* > move > (change and title): a command it returns has the edit type of
\* the branch of the highest-priority keyword of the instruction, and an
\* instruction without keyword yields no command.
C16_KeywordPriority ==
    FallbackResolved => fallback_result.result.edit_type = BranchOf(command)

\* "rename" together with a keyword of lower priority
C16_Witness ==
    /\ FallbackResolved
    /\ {"rename", "hide"} \subseteq KeywordsOf(command)
    /\ command[1] = Word("hide")
    /\ fallback_result.result.edit_type = "rename_field"

\* C17: the fallback parser either returns a command or fails with the
\* ParseError that carries the instruction; no other failure occurs.
C17_ParseErrorOrCommand ==
    fallback_result # NoResult
        => \/ fallback_result.result # NoResult
           \/ /\ fallback_result.error = ParseError
              /\ fallback_result.command = command

\* the lineage keys of the parsed document that equal name when lower-cased
KnownFields(name) ==
    { f \in DOMAIN report_cache[report_id].field_lineage : lower(f) = lower(name) }

\* the instruction holds keyword, none of the keywords of higher priority,
\* and exactly one quoted name
OneQuotedName(keyword, higher) ==
    /\ fallback_result # NoResult
    /\ Contains(command, keyword)
    /\ \A k \in higher : ~Contains(command, k)
    /\ Len(quoted_strings(command)) = 1

\* C18: for an instruction with "hide" (resp. "show"), no "rename" and one
\* quoted name, the fallback parser returns hide_field (resp. show_field)
\* with the field name in the document's casing when the quoted name equals
\* a lineage key case-insensitively, and no command otherwise.
C18_HideShowResolveFields ==
    \A b \in { <<"hide", {"rename"}, "hide_field">>,
               <<"show", {"rename", "hide"}, "show_field">> } :
        OneQuotedName(b[1], b[2]) =>
            LET fields == KnownFields(quoted_strings(command)[1])
            IN IF fields # {}
               THEN /\ fallback_result.result # NoResult
                    /\ fallback_result.result.edit_type = b[3]
                    /\ fallback_result.result.target \in fields
               ELSE fallback_result.result = NoResult

\* C19: for an instruction with "move" that names a known field in quotes
\* and has no "to <section> section" part, the fallback parser returns a
\* move_field command with that target and without target_section.
C19_MoveWithoutSectionParsed ==
    (OneQuotedName("move", {"rename", "hide", "show"})
        /\ KnownFields(quoted_strings(command)[1]) # {})
        => /\ fallback_result.result # NoResult
           /\ fallback_result.result.edit_type = "move_field"
           /\ fallback_result.result.target \in KnownFields(quoted_strings(command)[1])
           /\ "target_section" \notin DOMAIN fallback_result.result

\* the last call of parse_edit_command yields the outcome of the fallback
\* parser on the same instruction and document: its command when it
\* resolves one, a failure otherwise
FallbackOutcome ==
    LET f == _fallback_parse_command(command, report_cache[report_id])
    IN IF f.error = ""
       THEN /\ error = ""
            /\ edit_command = ToEditCommand(f.result)
       ELSE /\ error # ""
            /\ edit_command = NoCommand

\* C14: when no client is configured, parse_edit_command runs the fallback
\* parser and returns the command it resolves.
C14_FallbackWithoutClient ==
    (command # <<>> /\ ~client)
        => /\ fallback_result = _fallback_parse_command(command, report_cache[report_id])
           /\ FallbackOutcome

\* the interpreter's answer is no JSON text
NonJSON == ~response.raises /\ response.content # <<>> /\ ~json_loads(response.content).ok

\* the interpreter's answer is an object without edit_type or target, or
\* with an edit_type that is none of the eight
InvalidPayload(content) ==
    LET loaded == json_loads(content)
    IN /\ loaded.ok
       /\ \/ "edit_type" \notin DOMAIN loaded.value
          \/ "target" \notin DOMAIN loaded.value
          \/ loaded.value["edit_type"] \notin EditTypes

\* C15 as stated: when the interpreter's call raises, or it answers an
\* empty text, a text that is no JSON, or an invalid payload,
\* parse_edit_command yields the outcome of the fallback parser.
C15_AsStated ==
    (command # <<>> /\ client
        /\ (response.raises \/ response.content = <<>> \/ NonJSON
              \/ InvalidPayload(response.content)))
        => FallbackOutcome

\* C15 amended: a text that is no JSON counts only when the part from its
\* first "{" to its last "}" is no valid payload either (no JSON object, or
\* an invalid payload).
C15_InvalidAnswerFallsBack ==
    (command # <<>> /\ client
        /\ \/ response.raises
           \/ response.content = <<>>
           \/ (NonJSON /\ \/ ~json_loads(json_part(response.content)).ok
                          \/ InvalidPayload(json_part(response.content)))
           \/ InvalidPayload(response.content))
        => FallbackOutcome

\* an object with an unknown edit_type, wrapped in text, for an instruction
\* the fallback parser resolves
C15_Witness ==
    /\ command # <<>> /\ client
    /\ NonJSON
    /\ InvalidPayload(json_part(response.content))
    /\ Get(json_loads(json_part(response.content)).value, "edit_type") = "delete_field"
    /\ edit_command.edit_type = "rename_field"
    /\ edit_command.target = "Total"
    /\ fallback_result # NoResult

\* C11: when apply_edit fails, no document is returned and the edit history
\* listed for the report id is as it was before the call; so for a
\* move_field that fails after it removed the field from the working copy.
C11_FailedApplyLeavesHistory ==
    [][\A id \in LedgerIds :
          (report_id' = id /\ error' # "")
              => /\ modified_metadata' = NoDoc
                 /\ get_edit_history(id)' = get_edit_history(id)]_vars

\* a move_field to a missing section fails for a report that has a history
C11_Witness ==
    /\ edit_command.edit_type = "move_field"
    /\ edit_command.target_section = MissingSection
    /\ error = "Failed to apply edit: Target section not found"
    /\ modified_metadata = NoDoc
    /\ edit_command.target \in NamesOf(report_cache[report_id], "field_objects")
    /\ Len(get_edit_history(report_id)) = 1

\* C12: the edit history listed for a report id is the sequence of the
\* commands of the successful apply_edit calls made with that id, in call
\* order and with repeated commands kept: a successful call with the id
\* appends its command, and any other call (a failed one, or one with
\* another id) leaves the list as it was.
C12_HistoryIsSuccessfulCalls ==
    [][\A id \in LedgerIds :
          get_edit_history(id)' =
              IF report_id' = id /\ error' = ""
              THEN Append(get_edit_history(id), edit_command')
              ELSE get_edit_history(id)]_vars

\* the same command twice in the history of one report, after a failed call
\* and calls with the other id
C12_Witness ==
    /\ Len(get_edit_history("r1")) = 2
    /\ get_edit_history("r1")[1] = get_edit_history("r1")[2]
    /\ Len(get_edit_history("r2")) = 1
    /\ get_edit_history("r2")[1] # get_edit_history("r1")[1]
    /\ report_id = "r2"
    /\ error # ""

\* C13: a preview request (preview-edit, or visual-preview with a command)
\* leaves the stored document and the edit history of the report unchanged.
C13_PreviewLeavesHistory ==
    [][\A id \in LedgerIds, cmd \in LedgerCommands :
          PreviewEditRequest(id, cmd)
              => /\ report_cache' = report_cache
                 /\ edit_history' = edit_history]_vars

\* the document with the text of one text object replaced
WithText(metadata, i, j, new_value) ==
    [metadata EXCEPT !.sections[i].text_objects[j].text = new_value]

\* the sections of a document that hold a text object named x
SectionsWithText(metadata, x) ==
    { i \in DOMAIN metadata.sections :
        FirstNamed(metadata.sections[i].text_objects, x) # 0 }

\* C20: change_text overwrites the text of the first text object named
\* target, searching the sections in order, and of no other; when there is
\* none the document is returned unchanged.
C20_ChangeTextFirstOnly ==
    Applied("change_text") =>
        LET x == edit_command.target
            in_sections == SectionsWithText(original_metadata, x)
        IN IF in_sections = {}
           THEN modified_metadata = original_metadata
           ELSE LET i == Least(in_sections)
                    j == FirstNamed(original_metadata.sections[i].text_objects, x)
                IN modified_metadata
                     = WithText(original_metadata, i, j, edit_command.new_value)

\* the sections of a document that hold a field object named x and a text
\* object named x
SectionsWithBoth(metadata, x) ==
    { i \in DOMAIN metadata.sections :
        /\ FirstNamed(metadata.sections[i].field_objects, x) # 0
        /\ FirstNamed(metadata.sections[i].text_objects, x) # 0 }

\* C21: within a section, format_field merges the parameters into the first
\* field object named target, or else into the first text object named
\* target: in a section that holds both, the text objects are left as they
\* were.
C21_FormatFieldOrElseText ==
    Applied("format_field") =>
        \A i \in SectionsWithBoth(original_metadata, edit_command.target) :
            modified_metadata.sections[i].text_objects
                = original_metadata.sections[i].text_objects

\* the number of field objects of a document
FieldCount(metadata) ==
    LET RECURSIVE Sum(_)
        Sum(i) == IF i = 0 THEN 0
                  ELSE Len(metadata.sections[i].field_objects) + Sum(i - 1)
    IN Sum(Len(metadata.sections))

\* the section and the position of the first field object named x, in
\* document order
FirstField(metadata, x) ==
    LET i == Least(SectionsWithField(metadata, x))
    IN <<i, Least({ j \in DOMAIN metadata.sections[i].field_objects :
                      metadata.sections[i].field_objects[j].name = x })>>

MoveApplied ==
    /\ Applied("move_field")
    /\ edit_command.target \in MoveTargets

\* C22: a successful move_field(target, S) removes one field object, the
\* first one named target in document order, and appends that object to the
\* field list of the first section named S; the number of field objects is
\* unchanged, every other field object keeps its section and its order, and
\* the lineage entry of target, if there is one, has its section set to S.
C22_MoveFirstToEndOfSection ==
    MoveApplied =>
        LET x == edit_command.target
            S == edit_command.target_section
            D == original_metadata
            from == FirstField(D, x)
            obj == D.sections[from[1]].field_objects[from[2]]
            to == Least({ i \in DOMAIN D.sections : D.sections[i].name = S })
        IN /\ DOMAIN modified_metadata.sections = DOMAIN D.sections
           /\ \A i \in DOMAIN D.sections :
                 modified_metadata.sections[i].field_objects
                    = (IF i = from[1] THEN Pop(D.sections[i].field_objects, from[2])
                       ELSE D.sections[i].field_objects)
                      \o (IF i = to THEN <<obj>> ELSE <<>>)
           /\ FieldCount(modified_metadata) = FieldCount(D)
           /\ DOMAIN modified_metadata.field_lineage = DOMAIN D.field_lineage
           /\ x \in DOMAIN D.field_lineage
                 => modified_metadata.field_lineage[x].section = S

\* a field moved to another section that held a field already, out of a
\* document with a second field object of that name in a later section
C22_Witness ==
    /\ MoveApplied
    /\ LET x == edit_command.target
           D == original_metadata
           from == FirstField(D, x)
           to == Least({ i \in DOMAIN D.sections :
                           D.sections[i].name = edit_command.target_section })
       IN /\ to # from[1]
          /\ D.sections[to].field_objects # <<>>
          /\ \E i \in SectionsWithField(D, x) : i > from[1]
          /\ x \in DOMAIN D.field_lineage
          /\ modified_metadata.field_lineage[x].section = edit_command.target_section

\* the errors apply_edit raises for a move_field whose field, or whose
\* target section, is not in the document (the NotFoundError of the
\* specification)
FieldNotFound == "Failed to apply edit: Field not found"

SectionNotFound == "Failed to apply edit: Target section not found"

MoveRequested ==
    /\ edit_command.edit_type = "move_field"
    /\ original_metadata # NoDoc

\* C23: move_field with a target_section fails with the field-not-found
\* error when no section holds a field object named target, and with the
\* section-not-found error when the field is there and no section is named
\* target_section; both differ from the error raised for a missing
\* target_section, which is raised first.
C23_MoveNotFound ==
    MoveRequested =>
        LET D == original_metadata
            S == edit_command.target_section
        IN /\ S \in {None, ""} => error = ValidationError
           /\ (S \notin {None, ""} /\ SectionsWithField(D, edit_command.target) = {})
                 => error = FieldNotFound
           /\ (S \notin {None, ""} /\ SectionsWithField(D, edit_command.target) # {}
                 /\ \A i \in DOMAIN D.sections : D.sections[i].name # S)
                 => error = SectionNotFound
           /\ Cardinality({ValidationError, FieldNotFound, SectionNotFound}) = 3

\* the field is in the document and no section has the name asked for
C23_Witness ==
    /\ MoveRequested
    /\ error = SectionNotFound
    /\ SectionsWithField(original_metadata, edit_command.target) # {}
    /\ report_cache[report_id] = original_metadata

\* the hide_field, show_field and rename_field commands of the requests
FieldCommands ==
    { EditCommand(t, target, None, None, EmptyMap) :
        t \in {"hide_field", "show_field"}, target \in ObjectNames }
    \cup { EditCommand("rename_field", target, new_value, None, EmptyMap) :
             target \in ObjectNames, new_value \in NewNames }

\* x is no lineage key and no object name of the document
Unknown(metadata, x) ==
    x \notin (DOMAIN metadata.field_lineage) \cup SectionObjectNames(metadata)

\* C24: hide_field, show_field and rename_field whose target is neither a
\* lineage key nor an object name are successful no-ops: the call raises
\* nothing, returns (and stores) a document equal to the input, and the
\* command is appended to the history of the report.
C24_UnknownTargetNoOp ==
    [][\A id \in ReportIds, cmd \in FieldCommands :
          (ApplyEditRequest(id, cmd) /\ Unknown(report_cache[id], cmd.target))
              => /\ error' = ""
                 /\ modified_metadata' = report_cache[id]
                 /\ report_cache' = report_cache
                 /\ edit_history'[id] = Append(edit_history[id], cmd)]_vars

\* the three commands applied to a document that does not hold the target
C24_Witness ==
    /\ \E t \in {"hide_field", "show_field", "rename_field"} : Applied(t)
    /\ Unknown(original_metadata, edit_command.target)
    /\ modified_metadata = original_metadata
    /\ edit_history[report_id][Len(edit_history[report_id])] = edit_command
    /\ Len(snapshots[report_id]) = Len(edit_history[report_id]) + 1

\* the sections of a document named S
SectionsNamed(metadata, S) ==
    { i \in DOMAIN metadata.sections : metadata.sections[i].name = S }

\* the preview holds one change, "hide_section" of S
OneHideSection(S) ==
    preview.changes = << [type |-> "hide_section", target |-> S] >>

\* the section changes of the preview are those of the positions, up to the
\* shorter of the two section lists, where the hidden flags differ, each
\* named after the section of the document before
PositionalSectionChanges ==
    LET A == original_metadata.sections
        B == modified_metadata.sections
        differ == { i \in DOMAIN A : /\ i <= Len(B)
                                     /\ Truthy(A[i].hidden) # Truthy(B[i].hidden) }
        reported == SelectSeq(preview.changes,
                              LAMBDA c : c.type \in {"hide_section", "show_section"})
        at(k) == CHOOSE i \in differ : Cardinality({ j \in differ : j < i }) = k - 1
    IN /\ Len(reported) = Cardinality(differ)
       /\ \A k \in DOMAIN reported :
             /\ reported[k].target = A[at(k)].name
             /\ reported[k].type = IF Truthy(B[at(k)].hidden) THEN "hide_section"
                                   ELSE "show_section"

\* C25 as stated: for every document D with a non-hidden section named S,
\* the preview of D and apply(D, hide_section(S)) holds exactly one change,
\* of type "hide_section" with target S.
C25_AsStated ==
    (Applied("hide_section")
        /\ \E i \in SectionsNamed(original_metadata, edit_command.target) :
              ~Truthy(original_metadata.sections[i].hidden))
        => OneHideSection(edit_command.target)

\* C25 amended: hide_section sets hidden on the first section named target
\* and on no other, so when the first section named S is not hidden in D the
\* preview of D and apply(D, hide_section(S)) holds exactly one change, of
\* type "hide_section" with target S; the section check of the preview
\* compares the sections by position and names each change after the
\* section of the document before.
C25_HideSectionFirstOnly ==
    /\ Applied("hide_section") =>
          LET S == edit_command.target
              named == SectionsNamed(original_metadata, S)
          IN IF named = {} THEN modified_metadata = original_metadata
             ELSE /\ modified_metadata
                       = [original_metadata EXCEPT !.sections[Least(named)].hidden = "True"]
                  /\ ~Truthy(original_metadata.sections[Least(named)].hidden)
                        => OneHideSection(S)
    /\ (preview # NoPreview /\ original_metadata # NoDoc /\ modified_metadata # NoDoc)
          => PositionalSectionChanges

\* two sections are named S, neither is hidden, and the first is hidden by
\* the command
C25_Witness ==
    /\ Applied("hide_section")
    /\ LET named == SectionsNamed(original_metadata, edit_command.target)
       IN /\ Cardinality(named) = 2
          /\ \A i \in named : ~Truthy(original_metadata.sections[i].hidden)
          /\ \E i \in named : ~Truthy(modified_metadata.sections[i].hidden)
    /\ OneHideSection(edit_command.target)

\* the field objects of a document named x, as <<section, position>>
FieldsAt(metadata, x) ==
    { p \in Positions(metadata) :
        p[2] = "field_objects" /\ ObjectAt(metadata, p).name = x }

\* for every name that is a lineage key and names exactly one field object,
\* the hidden flag of the lineage entry is that of the field object
LineageMirrorsHidden(metadata) ==
    \A x \in DOMAIN metadata.field_lineage :
        Cardinality(FieldsAt(metadata, x)) = 1
            => \A p \in FieldsAt(metadata, x) :
                  Truthy(metadata.field_lineage[x].hidden)
                     = Truthy(ObjectAt(metadata, p).hidden)

\* C26: the lineage entry mirrors the hidden flag of its object across
\* edits: it does in every uploaded document, and it does in every document
\* stored after a sequence of successful commands.
C26_LineageMirrorsHidden ==
    \A id \in DOMAIN report_cache :
        /\ LineageMirrorsHidden(snapshots[id][1])
        /\ LineageMirrorsHidden(report_cache[id])

\* C29: rename_field never loses lineage data: the lineage of the document
\* returned has as many entries as the lineage of the input, the entry that
\* was under target is under the new name, unchanged, and every other entry
\* of the input is still there, also when the new name was a lineage key
\* already.
C29_RenameKeepsLineage ==
    Applied("rename_field") =>
        LET L == original_metadata.field_lineage
            M == modified_metadata.field_lineage
            t == edit_command.target
            n == edit_command.new_value
        IN /\ Cardinality(DOMAIN M) = Cardinality(DOMAIN L)
           /\ t \in DOMAIN L => (n \in DOMAIN M /\ M[n] = L[t])
           /\ \A k \in (DOMAIN L) \ {t} : k \in DOMAIN M /\ M[k] = L[k]

\* the rename changes of the preview, in order
Renames == SelectSeq(preview.changes, LAMBDA c : c.type = "rename")

\* x is a lineage key of the document and the name of exactly one field
\* object
FieldOnce(metadata, x) ==
    /\ x \in DOMAIN metadata.field_lineage
    /\ Cardinality(FieldsAt(metadata, x)) = 1

\* C27: the preview never reports the same rename twice: it holds at most
\* two rename changes, with distinct (old, new) pairs, and the preview of D
\* and apply(D, rename_field(t, n)), for a field t that is in the sections
\* once and in the lineage and a name n that D does not use, holds exactly
\* one rename change, of t to n.
C27_NoRenameTwice ==
    preview # NoPreview =>
        /\ Len(Renames) <= 2
        /\ \A i, j \in DOMAIN Renames :
              (Renames[i].old_value = Renames[j].old_value
                 /\ Renames[i].new_value = Renames[j].new_value) => i = j
        /\ (Applied("rename_field")
              /\ FieldOnce(original_metadata, edit_command.target)
              /\ Unknown(original_metadata, edit_command.new_value))
              => /\ Len(Renames) = 1
                 /\ Renames[1].old_value = edit_command.target
                 /\ Renames[1].new_value = edit_command.new_value

\* the rename of a field that is in the sections once and in the lineage to
\* an unused name: the sections and the lineage both show it
C27_Witness ==
    /\ Applied("rename_field")
    /\ FieldOnce(original_metadata, edit_command.target)
    /\ Unknown(original_metadata, edit_command.new_value)
    /\ Len(Renames) = 1
    /\ Renames[1].section # "Field Lineage"
    /\ (DOMAIN original_metadata.field_lineage) \ (DOMAIN modified_metadata.field_lineage)
          = {edit_command.target}
    /\ (DOMAIN modified_metadata.field_lineage) \ (DOMAIN original_metadata.field_lineage)
          = {edit_command.new_value}

\* the last two commands applied to the last report were hide(x) and then
\* show(x), and the preview is that of the document before the two and the
\* document after them
UndoCompared(hide, show, x) ==
    /\ report_id \in ReportIds
    /\ edit_command = NoCommand
    /\ preview # NoPreview
    /\ LET h == edit_history[report_id]
       IN /\ Len(h) >= 2
          /\ h[Len(h) - 1] = EditCommand(hide, x, None, None, EmptyMap)
          /\ h[Len(h)] = EditCommand(show, x, None, None, EmptyMap)
          /\ original_metadata = snapshots[report_id][Len(h) - 1]
          /\ modified_metadata = report_cache[report_id]

\* no field object of the document named x is hidden
FieldVisible(metadata, x) ==
    \A p \in FieldsAt(metadata, x) : ~Truthy(ObjectAt(metadata, p).hidden)

\* the first section of the document named S, the one hide_section works
\* on, is not hidden
SectionVisible(metadata, S) ==
    \A i \in SectionsNamed(metadata, S) :
        i = Least(SectionsNamed(metadata, S)) => ~Truthy(metadata.sections[i].hidden)

\* C28: show_field undoes hide_field as far as the preview can see: for a
\* document D and a field x that is not hidden in D, the preview of D and
\* apply(apply(D, hide_field(x)), show_field(x)) reports no change; likewise
\* for show_section after hide_section on a section that is not hidden.
C28_ShowUndoesHide ==
    /\ \A x \in ObjectNames :
          (UndoCompared("hide_field", "show_field", x)
              /\ FieldVisible(original_metadata, x))
              => preview = NoChanges
    /\ \A S \in SectionNames :
          (UndoCompared("hide_section", "show_section", S)
              /\ SectionVisible(original_metadata, S))
              => preview = NoChanges

\* the field carried hidden = False before and carries no hidden flag after:
\* the documents differ and the preview reports nothing
C28_Witness ==
    \E x \in ObjectNames :
        /\ UndoCompared("hide_field", "show_field", x)
        /\ FieldsAt(original_metadata, x) # {}
        /\ FieldVisible(original_metadata, x)
        /\ original_metadata # modified_metadata
        /\ preview = NoChanges

\* the document that results from applying the commands of a history, in
\* order, to a document
RECURSIVE Replay(_, _)
Replay(metadata, history) ==
    IF history = <<>> THEN metadata
    ELSE Replay(Dispatch(metadata, Head(history)).metadata, Tail(history))

\* no request for the report is between its read and its store
Completed(id) ==
    \A q \in Requests : requests[q].pc = "parsing" => requests[q].report_id # id

\* C30: when apply-edit requests for one report overlap, the document
\* stored after they completed holds the effect of every command recorded
\* in the history of the report: it is the uploaded document with the
\* commands of the history applied in order.
C30_NoLostEdit ==
    \A id \in DOMAIN report_cache :
        Completed(id)
            => report_cache[id] = Replay(snapshots[id][1], edit_history[id])

====
